---- MODULE Spec2Model ----
(***************************************************************************)
(* Model of the Mentorly backend: the course catalog (create, update,      *)
(* soft delete), the blog store (create, hard delete, lookup) and the      *)
(* query builder / paginator of the listing endpoints (getCourses,         *)
(* listCourses, BlogService.findBlogs).                                    *)
(*                                                                         *)
(* Request values are JavaScript values: query and form parameters arrive  *)
(* as strings (sequences of one-character strings here) or are undefined;  *)
(* parseInt / parseFloat produce a number or NaN.  The document store is   *)
(* Mongoose (6 or later: keys whose value is undefined are stripped from   *)
(* an update, update validators run with `this` bound to the query).       *)
(***************************************************************************)
EXTENDS Integers, Sequences, FiniteSets, TLC

VARIABLES courses, blogs, nextBlogId, now, req, res, failedReads, calls, subscribers,
          users

vars == <<courses, blogs, nextBlogId, now, req, res, failedReads, calls, subscribers, users>>

\* The requests that can be in flight at the same time, and a request slot no
\* handler runs in.
CallIds == {1, 2}

Idle == [op |-> "none", pc |-> "idle"]

NoCalls == [c \in CallIds |-> Idle]

\* The user store: one registered user who is not logged in.
NoToken == [iat |-> -1]

NoUsers == <<[refreshToken |-> NoToken]>>

(***************************************************************************)
(* Bounds of the model.                                                    *)
(***************************************************************************)
MaxCourses == 2
MaxBlogs == 2
MaxPrice == 2
MaxTime == 3
MaxLen == 3

(***************************************************************************)
(* JavaScript values.                                                      *)
(***************************************************************************)
Undef == [t |-> "undefined", n |-> 0, s |-> <<>>]
NaN == [t |-> "NaN", n |-> 0, s |-> <<>>]
Null == [t |-> "null", n |-> 0, s |-> <<>>]
Num(n) == [t |-> "number", n |-> n, s |-> <<>>]
Str(s) == [t |-> "string", n |-> 0, s |-> s]

IsUndef(v) == v.t = "undefined"
IsNum(v) == v.t = "number"
IsNaN(v) == v.t = "NaN"
IsStr(v) == v.t = "string"

\* JavaScript truthiness: undefined, null, NaN, 0 and "" are falsy.
Truthy(v) ==
    CASE v.t = "number" -> v.n # 0
      [] v.t = "string" -> v.s # <<>>
      [] OTHER -> FALSE

Digits == <<"0", "1", "2", "3", "4", "5", "6", "7", "8", "9">>

IsDigit(c) == \E i \in 1..10 : Digits[i] = c

DigitValue(c) == (CHOOSE i \in 1..10 : Digits[i] = c) - 1

\* The one-character string of the digit d, 0 <= d <= 9.
DigitChar(d) == Digits[d + 1]

RECURSIVE DigitPrefixLen(_)
\* Length of the longest prefix of s made of decimal digits.
DigitPrefixLen(s) ==
    IF s = <<>> \/ ~IsDigit(Head(s)) THEN 0 ELSE 1 + DigitPrefixLen(Tail(s))

RECURSIVE DigitsToNat(_, _)
\* Value of the digit string s read after the accumulated value acc.
DigitsToNat(s, acc) ==
    IF s = <<>> THEN acc ELSE DigitsToNat(Tail(s), 10 * acc + DigitValue(Head(s)))

\* Number.parseInt / parseFloat on a string without whitespace, '.', 'e' or
\* "Infinity": an optional sign, then the longest run of digits; NaN when
\* there is no digit.  Trailing characters are ignored.
ParseDigits(s) ==
    LET neg == s # <<>> /\ Head(s) = "-"
        body == IF s # <<>> /\ Head(s) \in {"-", "+"} THEN Tail(s) ELSE s
        k == DigitPrefixLen(body)
    IN  IF k = 0 THEN NaN
        ELSE LET m == DigitsToNat(SubSeq(body, 1, k), 0)
             IN  Num(IF neg THEN 0 - m ELSE m)

\* String(v): what `v as string` is at run time when v goes to a parser.
\* A number prints as its decimal digits; undefined as "undefined".
RECURSIVE NatToDigits(_)
NatToDigits(n) ==
    IF n < 10 THEN <<DigitChar(n)>> ELSE Append(NatToDigits(n \div 10), DigitChar(n % 10))

ToStringSeq(v) ==
    CASE v.t = "string" -> v.s
      [] v.t = "number" -> IF v.n < 0 THEN <<"-">> \o NatToDigits(0 - v.n) ELSE NatToDigits(v.n)
      [] OTHER -> <<"u", "n", "d", "e", "f", "i", "n", "e", "d">>

ParseInt(v) == ParseDigits(ToStringSeq(v))

ParseFloat(v) == ParseDigits(ToStringSeq(v))

Max(a, b) == IF a >= b THEN a ELSE b

Min(a, b) == IF a <= b THEN a ELSE b

(***************************************************************************)
(* The course catalog.                                                     *)
(***************************************************************************)
\* Math.round(((originalPrice - discountedPrice) / originalPrice) * 100) for
\* 0 <= discountedPrice <= originalPrice, originalPrice > 0 (round half up).
CalcDiscountPercentage(originalPrice, discountedPrice) ==
    (200 * (originalPrice - discountedPrice) + originalPrice) \div (2 * originalPrice)

\* courseSchema.pre('save'): recompute discountPercentage when both prices
\* are truthy and originalPrice > 0.
PreSave(c) ==
    IF c.hasDiscountedPrice /\ c.discountedPrice # 0 /\ c.originalPrice > 0
    THEN [c EXCEPT !.discountPercentage =
                      CalcDiscountPercentage(c.originalPrice, c.discountedPrice)]
    ELSE c

\* Strings the code compares with.
TrueStr == <<"t", "r", "u", "e">>

FalseStr == <<"f", "a", "l", "s", "e">>

Backend == <<"b", "a", "c", "k", "e", "n", "d">>

Frontend == <<"f", "r", "o", "n", "t", "e", "n", "d">>

\* The categories courseSchema / blogSchema accept (the enum of the schema);
\* the model uses two of the eight names.
Categories == {Backend, Frontend}

\* A stored course.  discountedPrice is optional: hasDiscountedPrice says
\* whether the field exists (its value is then a number, 0 included).  The
\* requests of the model leave rating, totalHours and students at their
\* default 0 and name one instructor; description, tags and badge are absent.
NewCourse(title, category, originalPrice, hasDP, discountedPrice, pct, featured, active, t) ==
    [title |-> title, instructor |-> <<"i">>, category |-> category,
     originalPrice |-> originalPrice,
     hasDiscountedPrice |-> hasDP, discountedPrice |-> discountedPrice,
     discountPercentage |-> pct, isFeatured |-> featured, isActive |-> active,
     rating |-> 0, totalHours |-> 0, students |-> 0,
     createdAt |-> t, updatedAt |-> t]

\* The response of the last request: the endpoint, the HTTP status, the id the
\* request named, and (for a listing) the filter, the matching page and the
\* pagination block.
NoList == [filter |-> <<>>, sort |-> <<>>, items |-> {}, pagination |-> <<>>, facets |-> <<>>]

Response(op, status, id) ==
    [op |-> op, status |-> status, id |-> id, error |-> "none", list |-> NoList]

\* courseData.discountedPrice / discountPercentage of createCourse:
\* req.body.x ? parseFloat(req.body.x) : undefined
OptionalFloat(v) == IF Truthy(v) THEN ParseFloat(v) ELSE Undef

\* The schema's validator of discountedPrice on save (this = the document):
\* !value || value <= this.originalPrice
DiscountedPriceValid(value, originalPrice) == value = 0 \/ value <= originalPrice

\* The same validator run as an update validator (runValidators: true): `this`
\* is the query, this.originalPrice is undefined and value <= undefined is false.
DiscountedPriceValidOnUpdate(value) == value = 0

\* body.f ? parseFloat(body.f) : 0 (parseInt for students; the numbers of the
\* model are integers)
FloatOrZero(v) == IF Truthy(v) THEN ParseFloat(v) ELSE Num(0)

\* The schema's min / max validators of rating.
RatingValid(rating) == 0 <= rating /\ rating <= 5

\* The schema's min / max validators of discountPercentage.
PercentageValid(pct) == 0 <= pct /\ pct <= 100

\* HTTP status of createCourse for a request body and the state of the image
\* upload ("none": no file, "failed": the upload returned nothing, "ok").
CreateCourseStatus(body, image) ==
    LET originalPrice == ParseFloat(body.originalPrice)
        discountedPrice == OptionalFloat(body.discountedPrice)
        pct == OptionalFloat(body.discountPercentage)
    IN  IF image # "ok" THEN 400
        \* requiredFields: a field of courseData that is falsy is missing
        ELSE IF ~Truthy(body.title) \/ ~Truthy(body.category) \/ ~Truthy(originalPrice) THEN 400
        ELSE IF Truthy(discountedPrice) /\ discountedPrice.n > originalPrice.n THEN 400
        \* course.save(): casting and the schema's validators
        ELSE IF body.category.s \notin Categories THEN 400
        ELSE IF originalPrice.n < 0 THEN 400
        ELSE IF IsNaN(discountedPrice) THEN 400
        ELSE IF IsNum(discountedPrice) /\ discountedPrice.n < 0 THEN 400
        ELSE IF IsNum(discountedPrice)
                /\ ~DiscountedPriceValid(discountedPrice.n, originalPrice.n) THEN 400
        ELSE IF IsNaN(pct) THEN 400
        ELSE IF IsNum(pct) /\ ~PercentageValid(pct.n) THEN 400
        ELSE IF \E v \in {FloatOrZero(body.rating), FloatOrZero(body.students),
                          FloatOrZero(body.totalHours)} : IsNaN(v) \/ v.n < 0 THEN 400
        ELSE IF ~RatingValid(FloatOrZero(body.rating).n) THEN 400
        ELSE 201

\* The document createCourse saves (after the pre-save hook) at time t.
CreatedCourse(body, t) ==
    LET discountedPrice == OptionalFloat(body.discountedPrice)
        pct == OptionalFloat(body.discountPercentage)
    IN  PreSave([NewCourse(body.title.s, body.category.s, ParseFloat(body.originalPrice).n,
                           IsNum(discountedPrice),
                           IF IsNum(discountedPrice) THEN discountedPrice.n ELSE 0,
                           IF IsNum(pct) THEN pct.n ELSE 0,
                           body.isFeatured = Str(TrueStr),
                           body.isActive # Str(FalseStr),
                           t)
                    EXCEPT !.rating = FloatOrZero(body.rating).n,
                           !.students = FloatOrZero(body.students).n,
                           !.totalHours = FloatOrZero(body.totalHours).n])

CreateCourse(body, image) ==
    /\ Len(courses) < MaxCourses
    /\ now < MaxTime
    /\ LET status == CreateCourseStatus(body, image)
       IN  /\ res' = Response("createCourse", status, IF status = 201 THEN Len(courses) + 1 ELSE 0)
           /\ IF status = 201
              THEN /\ courses' = Append(courses, CreatedCourse(body, now + 1))
                   /\ now' = now + 1
              ELSE UNCHANGED <<courses, now>>
    /\ UNCHANGED <<blogs, nextBlogId, req, failedReads, calls, subscribers, users>>

\* The fields updateCourse writes for a request body onto the stored course c
\* (findByIdAndUpdate with the undefined keys of updateData stripped); the
\* timestamps option sets updatedAt.
UpdatedCourse(c, body, t) ==
    LET discountedPrice == OptionalFloat(body.discountedPrice)
        pct == ParseFloat(body.discountPercentage)
    IN  [c EXCEPT
           !.title = IF IsUndef(body.title) THEN @ ELSE body.title.s,
           !.category = IF IsUndef(body.category) THEN @ ELSE body.category.s,
           !.originalPrice = ParseFloat(body.originalPrice).n,
           !.isFeatured = (body.isFeatured = Str(TrueStr)),
           !.isActive = (body.isActive # Str(FalseStr)),
           !.hasDiscountedPrice = IF IsNum(discountedPrice) THEN TRUE ELSE @,
           !.discountedPrice = IF IsNum(discountedPrice) THEN discountedPrice.n ELSE @,
           !.discountPercentage = IF IsUndef(body.discountPercentage) THEN @ ELSE pct.n,
           !.rating = IF IsUndef(body.rating) THEN @ ELSE ParseFloat(body.rating).n,
           !.students = IF IsUndef(body.students) THEN @ ELSE ParseFloat(body.students).n,
           !.totalHours = IF IsUndef(body.totalHours) THEN @ ELSE ParseFloat(body.totalHours).n,
           !.updatedAt = t]

\* HTTP status of updateCourse for the course id and a request body.
UpdateCourseStatus(id, body) ==
    LET originalPrice == ParseFloat(body.originalPrice)
        discountedPrice == OptionalFloat(body.discountedPrice)
        pct == ParseFloat(body.discountPercentage)
    IN  IF id \notin 1..Len(courses) THEN 404
        ELSE IF Truthy(discountedPrice) /\ IsNum(originalPrice)
                /\ discountedPrice.n > originalPrice.n THEN 400
        \* findByIdAndUpdate: a NaN does not cast to Number (CastError)
        ELSE IF IsNaN(originalPrice) \/ IsNaN(discountedPrice) THEN 500
        ELSE IF ~IsUndef(body.discountPercentage) /\ IsNaN(pct) THEN 500
        ELSE IF \E v \in {body.rating, body.students, body.totalHours} :
                    ~IsUndef(v) /\ IsNaN(ParseFloat(v)) THEN 500
        \* runValidators: the validators of the paths the update sets
        ELSE IF IsStr(body.title) /\ body.title.s = <<>> THEN 400
        ELSE IF IsStr(body.category) /\ body.category.s \notin Categories THEN 400
        ELSE IF originalPrice.n < 0 THEN 400
        ELSE IF IsNum(discountedPrice) /\ discountedPrice.n < 0 THEN 400
        ELSE IF IsNum(discountedPrice)
                /\ ~DiscountedPriceValidOnUpdate(discountedPrice.n) THEN 400
        ELSE IF ~IsUndef(body.discountPercentage) /\ ~PercentageValid(pct.n) THEN 400
        ELSE IF \E v \in {body.rating, body.students, body.totalHours} :
                    ~IsUndef(v) /\ ParseFloat(v).n < 0 THEN 400
        ELSE IF ~IsUndef(body.rating) /\ ~RatingValid(ParseFloat(body.rating).n) THEN 400
        ELSE 200

UpdateCourse(id, body) ==
    /\ now < MaxTime
    /\ LET status == UpdateCourseStatus(id, body)
       IN  /\ res' = Response("updateCourse", status, id)
           /\ IF status = 200
              THEN /\ courses' = [courses EXCEPT ![id] = UpdatedCourse(@, body, now + 1)]
                   /\ now' = now + 1
              ELSE UNCHANGED <<courses, now>>
    /\ UNCHANGED <<blogs, nextBlogId, req, failedReads, calls, subscribers, users>>

\* A delete that also clears the discount of the course.
SoftDeletedClearingDiscount(c, t) ==
    [c EXCEPT !.isActive = FALSE, !.updatedAt = t, !.hasDiscountedPrice = FALSE]

\* The update deleteCourse applies: { isActive: false, updatedAt: new Date() }.
SoftDeleted(c, t) == [c EXCEPT !.isActive = FALSE, !.updatedAt = t]

DeleteCourse(id) ==
    /\ now < MaxTime
    /\ IF id \in 1..Len(courses)
       THEN /\ courses' = [courses EXCEPT ![id] = SoftDeleted(@, now + 1)]
            /\ now' = now + 1
            /\ res' = Response("deleteCourse", 201, id)
       ELSE /\ res' = Response("deleteCourse", 404, id)
            /\ UNCHANGED <<courses, now>>
    /\ UNCHANGED <<blogs, nextBlogId, req, failedReads, calls, subscribers, users>>

(***************************************************************************)
(* The query builder of getCourses and listCourses.                        *)
(***************************************************************************)
Bool(b) == [t |-> "boolean", n |-> IF b THEN 1 ELSE 0, s |-> <<>>]

AllCourses == <<"A", "l", "l", " ", "C", "o", "u", "r", "s", "e", "s">>

\* Math.abs(parseInt(page as string)) || 1: a page below 1 mirrored, not clamped.
PageNumMirrored(page) ==
    LET parsed == ParseInt(page)
    IN  IF Truthy(parsed) THEN (IF parsed.n < 0 THEN 0 - parsed.n ELSE parsed.n) ELSE 1

\* Math.max(1, parseInt(page as string) || 1)
PageNum(page) ==
    LET parsed == ParseInt(page)
    IN  Max(1, IF Truthy(parsed) THEN parsed.n ELSE 1)

\* Math.max(1, Math.min(100, parseInt(limit as string) || fallback))
LimitNum(limit, fallback) ==
    LET parsed == ParseInt(limit)
    IN  Max(1, Min(100, IF Truthy(parsed) THEN parsed.n ELSE fallback))

\* The default of a destructured query parameter: `{ x = d } = req.query`
\* replaces undefined only.
OrDefault(v, d) == IF IsUndef(v) THEN d ELSE v

\* Defaults and fallbacks of the two endpoints.
GetCoursesDefaultLimit == 9
GetCoursesFallbackLimit == 10
ListCoursesDefaultLimit == 12
ListCoursesFallbackLimit == 12

\* A range constraint of the filter: each bound is undefined (absent), a
\* number or NaN.  has = FALSE: the field is not in the filter.
NoRange == [has |-> FALSE, gt |-> Undef, gte |-> Undef, lte |-> Undef]

\* if (min !== undefined || max !== undefined) { f = {}; $gte = parse(min); $lte = parse(max) }
RangeOf(min, max, old) ==
    IF IsUndef(min) /\ IsUndef(max) THEN old
    ELSE [has |-> TRUE, gt |-> Undef,
          gte |-> IF IsUndef(min) THEN Undef ELSE ParseFloat(min),
          lte |-> IF IsUndef(max) THEN Undef ELSE ParseFloat(max)]

\* The $or clause of the filter: none, the text search or the
\* discount-absence alternatives.
NoOr == [kind |-> "none", pattern |-> <<>>]

SearchOr(search) == [kind |-> "search", pattern |-> search.s]

NoDiscountOr == [kind |-> "noDiscount", pattern |-> <<>>]

\* A builder that assigns the search alternatives after the discount-absence
\* ones, so that the search is what remains.
OrClauseSearchLast(search, noDiscount) ==
    IF Truthy(search) THEN SearchOr(search)
    ELSE IF noDiscount THEN NoDiscountOr
    ELSE NoOr

\* filter.$or after both assignments of the builder: the search alternatives
\* are assigned first, the discount-absence alternatives (under noDiscount)
\* second, and the later assignment replaces the earlier.
OrClause(search, noDiscount) ==
    IF noDiscount THEN NoDiscountOr
    ELSE IF Truthy(search) THEN SearchOr(search)
    ELSE NoOr

\* Number.MAX_SAFE_INTEGER (2^53 - 1), the upper end of an open range.  The
\* numbers of the model stay below 2^31, whose largest stands for it.
MaxSafeInteger == 2147483647

Free == <<"f", "r", "e", "e">>
Under1000 == <<"u", "n", "d", "e", "r", "-", "1", "0", "0", "0">>
From1000To5000 == <<"1", "0", "0", "0", "-", "5", "0", "0", "0">>
From5000To10000 == <<"5", "0", "0", "0", "-", "1", "0", "0", "0", "0">>
Above10000 == <<"a", "b", "o", "v", "e", "-", "1", "0", "0", "0", "0">>

\* The lookup table of priceRange: name -> <<min, max>>.
PriceRanges ==
    [name \in {Free, Under1000, From1000To5000, From5000To10000, Above10000} |->
        CASE name = Free -> <<0, 0>>
          [] name = Under1000 -> <<0, 1000>>
          [] name = From1000To5000 -> <<1000, 5000>>
          [] name = From5000To10000 -> <<5000, 10000>>
          [] name = Above10000 -> <<10000, MaxSafeInteger>>]

Short == <<"s", "h", "o", "r", "t">>
Medium == <<"m", "e", "d", "i", "u", "m">>
Long == <<"l", "o", "n", "g">>
Extended == <<"e", "x", "t", "e", "n", "d", "e", "d">>

\* The lookup table of durationRange: name -> <<min, max>>.
DurationRanges ==
    [name \in {Short, Medium, Long, Extended} |->
        CASE name = Short -> <<0, 10>>
          [] name = Medium -> <<10, 30>>
          [] name = Long -> <<30, 100>>
          [] name = Extended -> <<100, MaxSafeInteger>>]

\* Names every object literal inherits from Object.prototype (some of them):
\* ranges[name] is then a function or an object, which is truthy and has
\* neither min nor max.
ObjectPrototypeKeys ==
    {<<"c", "o", "n", "s", "t", "r", "u", "c", "t", "o", "r">>,
     <<"t", "o", "S", "t", "r", "i", "n", "g">>,
     <<"v", "a", "l", "u", "e", "O", "f">>}

\* if (token) { const range = ranges[token]; if (range) filter.f = { $gte:
\* range.min, $lte: range.max } }.  For an inherited name both bounds are
\* undefined; a key whose value is undefined reaches the store as null (here
\* Null), and a bound of null is met by no number.
PresetRangeOf(token, ranges, old) ==
    IF Truthy(token) /\ IsStr(token) /\ token.s \in DOMAIN ranges
    THEN [has |-> TRUE, gt |-> Undef,
          gte |-> Num(ranges[token.s][1]), lte |-> Num(ranges[token.s][2])]
    ELSE IF Truthy(token) /\ IsStr(token) /\ token.s \in ObjectPrototypeKeys
    THEN [has |-> TRUE, gt |-> Undef, gte |-> Null, lte |-> Null]
    ELSE old

\* isActive === 'true' without the default for an absent parameter.
GetCoursesActiveUndefaulted(isActive) == isActive = Str(TrueStr)

\* hasDiscount taken as true whenever it is supplied.
RequiresDiscountWhenSupplied(hasDiscount) == ~IsUndef(hasDiscount)

\* if (hasDiscount === 'true') filter.discountedPrice = { $exists: true, $ne: null, $gt: 0 }
RequiresDiscount(hasDiscount) == hasDiscount = Str(TrueStr)

\* filter.isActive of getCourses: isActive !== undefined ? (isActive === 'true') : true
GetCoursesActive(isActive) == IF IsUndef(isActive) THEN TRUE ELSE isActive = Str(TrueStr)

\* filter.isActive of listCourses: the parameter defaults to 'true';
\* filter.isActive = isActive === 'true'
ListCoursesActive(isActive) == OrDefault(isActive, Str(TrueStr)) = Str(TrueStr)

\* filter.isFeatured: if (isFeatured !== undefined) filter.isFeatured = isFeatured === 'true'
FeaturedOf(isFeatured) ==
    IF IsUndef(isFeatured) THEN Undef ELSE Bool(isFeatured = Str(TrueStr))

\* filter.category without the sentinel: if (category) filter.category = category
CategoryOfAnyName(category) == IF Truthy(category) THEN category ELSE Undef

\* filter.category: if (category && category !== 'All Courses') filter.category = category
CategoryOf(category) ==
    IF Truthy(category) /\ category # Str(AllCourses) THEN category ELSE Undef

\* The filter getCourses builds from the query q.
GetCoursesFilter(q) ==
    [isActive |-> GetCoursesActive(q.isActive),
     or |-> OrClause(q.search, ~IsUndef(q.hasDiscount) /\ q.hasDiscount # Str(TrueStr)),
     searchTags |-> FALSE,
     category |-> CategoryOf(q.category),
     originalPrice |-> RangeOf(q.minPrice, q.maxPrice, NoRange),
     discountedPricePositive |-> RequiresDiscount(q.hasDiscount),
     discountPercentage |-> RangeOf(q.minDiscount, Undef, NoRange),
     rating |-> RangeOf(q.minRating, q.maxRating, NoRange),
     totalHours |-> RangeOf(q.minDuration, q.maxDuration, NoRange),
     students |-> RangeOf(q.minStudents, Undef, NoRange),
     isFeatured |-> FeaturedOf(q.isFeatured),
     tags |-> Undef]

\* The filter listCourses builds from the query q.
ListCoursesFilter(q) ==
    [isActive |-> ListCoursesActive(q.isActive),
     or |-> OrClause(q.search, q.hasDiscount = Str(FalseStr)),
     searchTags |-> TRUE,
     category |-> CategoryOf(q.category),
     originalPrice |-> PresetRangeOf(q.priceRange, PriceRanges,
                                       RangeOf(q.minPrice, q.maxPrice, NoRange)),
     discountedPricePositive |-> RequiresDiscount(q.hasDiscount),
     discountPercentage |->
        RangeOf(q.minDiscountPercentage, q.maxDiscountPercentage,
                IF q.hasDiscount = Str(TrueStr)
                THEN [has |-> TRUE, gt |-> Num(0), gte |-> Undef, lte |-> Undef]
                ELSE NoRange),
     rating |-> RangeOf(q.minRating, q.maxRating, NoRange),
     totalHours |-> PresetRangeOf(q.durationRange, DurationRanges,
                                    RangeOf(q.minDuration, q.maxDuration, NoRange)),
     students |-> RangeOf(q.minStudents, q.maxStudents, NoRange),
     isFeatured |-> FeaturedOf(q.isFeatured),
     tags |-> IF Truthy(q.tags) THEN q.tags ELSE Undef]

(***************************************************************************)
(* The store's side of a listing: matching, casting, sorting, paging.      *)
(***************************************************************************)
RECURSIVE GroupDepths(_, _)
\* Whether the parentheses of pattern s are balanced, read at depth d.
GroupDepths(s, d) ==
    IF s = <<>> THEN d = 0
    ELSE IF Head(s) = "(" THEN GroupDepths(Tail(s), d + 1)
    ELSE IF Head(s) = ")" THEN d > 0 /\ GroupDepths(Tail(s), d - 1)
    ELSE GroupDepths(Tail(s), d)

\* Whether new RegExp(s, 'i') succeeds, for patterns of letters and
\* parentheses: an unterminated group or an unmatched ')' is a SyntaxError.
RegExpValid(s) == GroupDepths(s, 0)

\* The characters a valid pattern of letters and groups has to find.
Literal(s) == SelectSeq(s, LAMBDA c : c \notin {"(", ")"})

\* Whether text contains pat as a substring.
Contains(text, pat) ==
    \E i \in 0..(Len(text) - Len(pat)) : SubSeq(text, i + 1, i + Len(pat)) = pat

\* { $regex: s, $options: 'i' } on a text field (the model's texts are lower case).
RegexMatches(s, text) == Contains(text, Literal(s))

\* Whether value satisfies the range constraint r.  A comparison with NaN
\* matches no number.
InRange(r, value) ==
    \/ ~r.has
    \/ /\ \/ IsUndef(r.gt) \/ (IsNum(r.gt) /\ value > r.gt.n)
       /\ \/ IsUndef(r.gte) \/ (IsNum(r.gte) /\ value >= r.gte.n)
       /\ \/ IsUndef(r.lte) \/ (IsNum(r.lte) /\ value <= r.lte.n)

\* Whether the stored course c satisfies the filter f.
Matches(f, c) ==
    /\ c.isActive = f.isActive
    /\ \/ f.or.kind = "none"
       \/ /\ f.or.kind = "search"
          /\ \/ RegexMatches(f.or.pattern, c.title)
             \/ RegexMatches(f.or.pattern, c.instructor)
             \/ RegexMatches(f.or.pattern, c.category)
       \/ /\ f.or.kind = "noDiscount"
          /\ (~c.hasDiscountedPrice \/ c.discountedPrice = 0)
    /\ IsUndef(f.category) \/ c.category = f.category.s
    /\ InRange(f.originalPrice, c.originalPrice)
    /\ f.discountedPricePositive => (c.hasDiscountedPrice /\ c.discountedPrice > 0)
    /\ InRange(f.discountPercentage, c.discountPercentage)
    /\ InRange(f.rating, c.rating)
    /\ InRange(f.totalHours, c.totalHours)
    /\ InRange(f.students, c.students)
    /\ IsUndef(f.isFeatured) \/ c.isFeatured = (f.isFeatured.n = 1)
    \* the model's courses have no tags: { tags: { $in: [...] } } matches none
    /\ IsUndef(f.tags)

\* The ids of the courses matching f.
Matching(f) == {i \in 1..Len(courses) : Matches(f, courses[i])}

RangeCasts(r) == ~IsNaN(r.gt) /\ ~IsNaN(r.gte) /\ ~IsNaN(r.lte)

\* Whether Mongoose casts the filter for find / countDocuments: NaN does not
\* cast to the Number of a schema path (CastError).
FilterCasts(f) ==
    /\ RangeCasts(f.originalPrice)
    /\ RangeCasts(f.discountPercentage)
    /\ RangeCasts(f.rating)
    /\ RangeCasts(f.totalHours)
    /\ RangeCasts(f.students)

\* The names the sort code compares sortBy and sortOrder with, and the fields
\* it sorts by.
SortName ==
    [createdAt |-> <<"c", "r", "e", "a", "t", "e", "d", "A", "t">>,
     discountedPrice |-> <<"d", "i", "s", "c", "o", "u", "n", "t", "e", "d", "P", "r", "i", "c", "e">>,
     originalPrice |-> <<"o", "r", "i", "g", "i", "n", "a", "l", "P", "r", "i", "c", "e">>,
     duration |-> <<"d", "u", "r", "a", "t", "i", "o", "n">>,
     totalHours |-> <<"t", "o", "t", "a", "l", "H", "o", "u", "r", "s">>,
     price |-> <<"p", "r", "i", "c", "e">>,
     rating |-> <<"r", "a", "t", "i", "n", "g">>,
     students |-> <<"s", "t", "u", "d", "e", "n", "t", "s">>,
     discount |-> <<"d", "i", "s", "c", "o", "u", "n", "t">>,
     discountPercentage |-> <<"d", "i", "s", "c", "o", "u", "n", "t", "P", "e", "r", "c", "e", "n", "t", "a", "g", "e">>,
     popularity |-> <<"p", "o", "p", "u", "l", "a", "r", "i", "t", "y">>,
     trending |-> <<"t", "r", "e", "n", "d", "i", "n", "g">>,
     asc |-> <<"a", "s", "c">>,
     desc |-> <<"d", "e", "s", "c">>]

\* sortOrder === 'desc' ? -1 : 1 with no regard for sortOrder.
SortDirectionAscending(sortOrder) == 1

\* sortOrder === 'desc' ? -1 : 1
SortDirection(sortOrder) == IF sortOrder = Str(SortName.desc) THEN -1 ELSE 1

\* Whether the sort object has the key.
HasKey(sort, key) == \E k \in 1..Len(sort) : sort[k][1] = key

\* sort[key] = dir on an object, whose keys keep the order in which they were
\* first set: a sort is the sequence of its <<field, direction>> pairs.
SetKey(sort, key, dir) ==
    IF HasKey(sort, key)
    THEN [k \in 1..Len(sort) |-> IF sort[k][1] = key THEN <<key, dir>> ELSE sort[k]]
    ELSE Append(sort, <<key, dir>>)

\* The sort getCourses resolves: the switch over sortBy, then
\* sort.createdAt = -1 whatever the switch has set.
GetCoursesSort(q) ==
    LET sortBy == OrDefault(q.sortBy, Str(SortName.createdAt))
        dir == SortDirection(OrDefault(q.sortOrder, Str(SortName.desc)))
        switched ==
            IF sortBy = Str(SortName.discountedPrice)
            THEN <<<<SortName.discountedPrice, dir>>, <<SortName.originalPrice, dir>>>>
            ELSE IF sortBy = Str(SortName.duration) THEN <<<<SortName.totalHours, dir>>>>
            ELSE <<<<sortBy.s, dir>>>>
    IN  SetKey(switched, SortName.createdAt, -1)

\* The sort listCourses resolves: the switch over sortBy, then createdAt
\* descending unless the switch has set createdAt.
ListCoursesSort(q) ==
    LET sortBy == OrDefault(q.sortBy, Str(SortName.createdAt))
        dir == SortDirection(OrDefault(q.sortOrder, Str(SortName.desc)))
        switched ==
            IF sortBy = Str(SortName.price) THEN <<<<SortName.originalPrice, dir>>>>
            ELSE IF sortBy = Str(SortName.discountedPrice)
            THEN <<<<SortName.discountedPrice, dir>>>>
            ELSE IF sortBy = Str(SortName.rating) THEN <<<<SortName.rating, dir>>>>
            ELSE IF sortBy = Str(SortName.students) THEN <<<<SortName.students, dir>>>>
            ELSE IF sortBy = Str(SortName.duration) THEN <<<<SortName.totalHours, dir>>>>
            ELSE IF sortBy = Str(SortName.discount)
            THEN <<<<SortName.discountPercentage, dir>>>>
            ELSE IF sortBy = Str(SortName.popularity)
            THEN <<<<SortName.students, -1>>, <<SortName.rating, -1>>>>
            ELSE IF sortBy = Str(SortName.trending)
            THEN <<<<SortName.createdAt, -1>>, <<SortName.students, -1>>>>
            ELSE <<<<sortBy.s, dir>>>>
    IN  IF HasKey(switched, SortName.createdAt) THEN switched
        ELSE SetKey(switched, SortName.createdAt, -1)

\* The value the store orders course c by under a sort field: the number of
\* a numeric field, and the least value for a field the course does not
\* carry (a missing field sorts first in ascending order).
SortValue(c, field) ==
    IF field = SortName.createdAt THEN c.createdAt
    ELSE IF field = SortName.originalPrice THEN c.originalPrice
    ELSE IF field = SortName.discountedPrice
    THEN (IF c.hasDiscountedPrice THEN c.discountedPrice ELSE -1)
    ELSE IF field = SortName.rating THEN c.rating
    ELSE IF field = SortName.students THEN c.students
    ELSE IF field = SortName.totalHours THEN c.totalHours
    ELSE IF field = SortName.discountPercentage THEN c.discountPercentage
    ELSE -1

\* Whether course a comes before course b under the sort; courses equal on
\* every key come in a fixed order (the later id first).
RECURSIVE SortsBefore(_, _, _)
SortsBefore(a, b, sort) ==
    IF sort = <<>> THEN a > b
    ELSE LET va == SortValue(courses[a], Head(sort)[1])
             vb == SortValue(courses[b], Head(sort)[1])
         IN  IF va = vb THEN SortsBefore(a, b, Tail(sort))
             ELSE IF Head(sort)[2] = 1 THEN va < vb ELSE va > vb

\* The ids of set S in the order of the sort.
SortedBy(S, sort) ==
    [k \in 1..Cardinality(S) |->
        CHOOSE i \in S : Cardinality({j \in S \ {i} : SortsBefore(j, i, sort)}) = k - 1]

\* The ids of set S by createdAt descending (the sort both endpoints resolve
\* when sortBy and sortOrder are absent).
NewestFirst(S) ==
    [k \in 1..Cardinality(S) |->
        CHOOSE i \in S :
            Cardinality({j \in S : courses[j].createdAt > courses[i].createdAt
                                    \/ (courses[j].createdAt = courses[i].createdAt /\ j > i)})
                = k - 1]

\* .limit(limit) of a sorted result without its .skip(skip).
PageOfUnskipped(sorted, skip, limit) == SubSeq(sorted, 1, Min(Len(sorted), limit))

\* .skip(skip).limit(limit) of a sorted result.
PageOf(sorted, skip, limit) ==
    IF skip >= Len(sorted) THEN <<>>
    ELSE SubSeq(sorted, skip + 1, Min(Len(sorted), skip + limit))

\* Math.ceil(total / limit) for total >= 0, limit >= 1.
CeilDiv(total, limit) == (total + limit - 1) \div limit

\* The pagination block of a response.
Pagination(pageNum, limitNum, total) ==
    LET totalPages == CeilDiv(total, limitNum)
        hasNext == pageNum < totalPages
        hasPrev == pageNum > 1
    IN  [currentPage |-> Num(pageNum),
         totalPages |-> Num(totalPages),
         totalItems |-> total,
         itemsPerPage |-> Num(limitNum),
         hasNext |-> hasNext,
         hasPrev |-> hasPrev,
         nextPage |-> IF hasNext THEN Num(pageNum + 1) ELSE Null,
         prevPage |-> IF hasPrev THEN Num(pageNum - 1) ELSE Null]

\* A listing response: status 200 with the filter, the page and the
\* pagination block, or status 500 and the place the error came from
\* ("builder": raised while the filter was built; "cast": the store's
\* driver refused the filter before any read; "storage": a read failed).
Listing(op, filter, items, pagination) ==
    [op |-> op, status |-> 200, id |-> 0, error |-> "none",
     list |-> [filter |-> filter, sort |-> <<>>, items |-> items, pagination |-> pagination,
               facets |-> <<>>]]

ListingError(op, error) ==
    [op |-> op, status |-> 500, id |-> 0, error |-> error, list |-> NoList]

\* The statistics read over the whole catalog instead of the filter.
StatsScopeCatalog(filter) == 1..Len(courses)

\* { $match: filter } of the statistics read: the courses it aggregates.
StatsScope(filter) == Matching(filter)

\* $min / $max of a field over the courses S, and what the response makes of
\* it: stats.min !== undefined ? { min, max } : null, where stats is {} when
\* the aggregate returned no group.
RangeFacet(S, field) ==
    IF S = {} THEN Null
    ELSE [min |-> CHOOSE v \in {courses[i][field] : i \in S} :
                      \A i \in S : v <= courses[i][field],
          max |-> CHOOSE v \in {courses[i][field] : i \in S} :
                      \A i \in S : v >= courses[i][field]]

\* filters.available of a listCourses response: the three ranges of the
\* statistics read and the count of matching courses per category.
ListCoursesFacets(filter) ==
    [priceRange |-> RangeFacet(StatsScope(filter), "originalPrice"),
     ratingRange |-> RangeFacet(StatsScope(filter), "rating"),
     durationRange |-> RangeFacet(StatsScope(filter), "totalHours"),
     categories |-> {<<courses[i].category,
                       Cardinality({j \in Matching(filter) :
                                        courses[j].category = courses[i].category})>> :
                        i \in Matching(filter)}]

\* The response of a listing endpoint whose filter was built; getCourses
\* returns no facets.
CourseListing(op, filter, sort, pageNum, limitNum) ==
    [Listing(op, filter,
             PageOf(SortedBy(Matching(filter), sort), (pageNum - 1) * limitNum, limitNum),
             Pagination(pageNum, limitNum, Cardinality(Matching(filter))))
        EXCEPT !.list.sort = sort,
               !.list.facets = IF op = "listCourses" THEN ListCoursesFacets(filter)
                               ELSE <<>>]

\* Whether one of the reads in `reads` is among those the store fails.
ReadsFail(failed, reads) == failed \cap reads # {}

\* The reads getCourses joins with Promise.all: the page of items and the
\* count of the matching records.
GetCoursesJoin == {"page", "count"}

\* getCourses for the query q; failed: the reads the store fails during the
\* call.  countDocuments casts the filter; an invalid $regex is an error of
\* the store.  Every rejection reaches the catch block.
GetCoursesReads(q, failed) ==
    /\ req' = q
    /\ failedReads' = failed
    /\ res' = LET filter == GetCoursesFilter(q)
              IN  IF ~FilterCasts(filter) THEN ListingError("getCourses", "cast")
                  ELSE IF filter.or.kind = "search" /\ ~RegExpValid(filter.or.pattern)
                  THEN ListingError("getCourses", "storage")
                  ELSE IF ReadsFail(failed, GetCoursesJoin)
                  THEN ListingError("getCourses", "storage")
                  ELSE CourseListing("getCourses", filter, GetCoursesSort(q),
                                     PageNum(OrDefault(q.page, Num(1))),
                                     LimitNum(OrDefault(q.limit, Num(GetCoursesDefaultLimit)),
                                              GetCoursesFallbackLimit))
    /\ UNCHANGED <<courses, blogs, nextBlogId, now, calls, subscribers, users>>

\* getCourses over a store that answers every read or none.
GetCourses(q, storageOk) ==
    GetCoursesReads(q, IF storageOk THEN {} ELSE GetCoursesJoin)

\* Whether listCourses raises while it builds the filter: new RegExp(search, 'i')
\* and new RegExp(tag, 'i') throw a SyntaxError on an invalid pattern.
ListCoursesBuilderThrows(q) ==
    \/ Truthy(q.search) /\ ~RegExpValid(q.search.s)
    \/ Truthy(q.tags) /\ ~RegExpValid(q.tags.s)

\* Every read listCourses issues during one call.
ListCoursesReadNames == {"page", "count", "stats", "categories", "levels"}

\* The reads listCourses joins with Promise.all: the page of items, the
\* count and the statistics of the matching records.
ListCoursesJoin == {"page", "count", "stats"}

\* A handler that would not wait for the count reads issued after the join.
ListCoursesCountsUnawaited == {}

\* The reads listCourses awaits one after the other once the join is done:
\* the counts per category and per level.
ListCoursesCounts == {"categories", "levels"}

\* listCourses for the query q; failed: the reads the store fails during the
\* call.  A rejection of the join or of a later count read reaches the
\* catch block, which answers 500 without data.
ListCoursesReads(q, failed) ==
    /\ req' = q
    /\ failedReads' = failed
    /\ res' = IF ListCoursesBuilderThrows(q) THEN ListingError("listCourses", "builder")
              ELSE LET filter == ListCoursesFilter(q)
                   IN  IF ~FilterCasts(filter) THEN ListingError("listCourses", "cast")
                       ELSE IF ReadsFail(failed, ListCoursesJoin)
                       THEN ListingError("listCourses", "storage")
                       ELSE IF ReadsFail(failed, ListCoursesCounts)
                       THEN ListingError("listCourses", "storage")
                       ELSE CourseListing("listCourses", filter, ListCoursesSort(q),
                                          PageNum(OrDefault(q.page, Num(1))),
                                          LimitNum(OrDefault(q.limit, Num(ListCoursesDefaultLimit)),
                                                   ListCoursesFallbackLimit))
    /\ UNCHANGED <<courses, blogs, nextBlogId, now, calls, subscribers, users>>

\* listCourses read by read, over a store that other requests change while
\* the call is in flight.  The result of read r of a call with the query q,
\* taken from the store as it is when the store executes the read.  No
\* request of the model carries a level: every course has the schema's
\* default level, and the level counts are one group.
ListCoursesReadResult(r, q) ==
    LET filter == ListCoursesFilter(q)
        pageNum == PageNum(OrDefault(q.page, Num(1)))
        limitNum == LimitNum(OrDefault(q.limit, Num(ListCoursesDefaultLimit)),
                             ListCoursesFallbackLimit)
    IN  IF r = "page"
        THEN PageOf(SortedBy(Matching(filter), ListCoursesSort(q)),
                    (pageNum - 1) * limitNum, limitNum)
        ELSE IF r = "count" THEN Cardinality(Matching(filter))
        ELSE IF r = "stats" THEN ListCoursesFacets(filter)
        ELSE IF r = "categories" THEN ListCoursesFacets(filter).categories
        ELSE IF Matching(filter) = {} THEN {}
        ELSE {<<"beginner", Cardinality(Matching(filter))>>}

\* The response listCourses builds from the results of its five reads.
ListCoursesResponse(q, results) ==
    LET pageNum == PageNum(OrDefault(q.page, Num(1)))
        limitNum == LimitNum(OrDefault(q.limit, Num(ListCoursesDefaultLimit)),
                             ListCoursesFallbackLimit)
    IN  [Listing("listCourses", ListCoursesFilter(q), results.page,
                 Pagination(pageNum, limitNum, results.count))
            EXCEPT !.list.sort = ListCoursesSort(q),
                   !.list.facets = [priceRange |-> results.stats.priceRange,
                                    ratingRange |-> results.stats.ratingRange,
                                    durationRange |-> results.stats.durationRange,
                                    categories |-> results.categories,
                                    levels |-> results.levels]]

\* The reads a listCourses call issues once the reads in `issued` were issued
\* and those in `completed` have completed: the three reads of Promise.all
\* at once, the category counts after the join, the level counts after the
\* category counts.
ListCoursesNextReads(issued, completed) ==
    IF issued = {} THEN ListCoursesJoin
    ELSE IF issued # completed THEN {}
    ELSE IF issued = ListCoursesJoin THEN {"categories"}
    ELSE IF issued = ListCoursesJoin \cup {"categories"} THEN {"levels"}
    ELSE {}

\* The events of issuing the reads in S, in the order of the code.
RECURSIVE IssueEvents(_, _)
IssueEvents(order, S) ==
    IF order = <<>> THEN <<>>
    ELSE (IF Head(order) \in S THEN <<<<"issued", Head(order)>>>> ELSE <<>>)
            \o IssueEvents(Tail(order), S)

ListCoursesReadOrder == <<"page", "count", "stats", "categories", "levels">>

\* listCourses of request slot c from its start to the await of Promise.all:
\* the filter is built and the three joined reads are issued.
ListCoursesIssue(c, q) ==
    /\ calls[c].pc = "idle"
    /\ req' = q
    /\ failedReads' = {}
    /\ IF ListCoursesBuilderThrows(q)
       THEN /\ res' = ListingError("listCourses", "builder")
            /\ UNCHANGED calls
       ELSE IF ~FilterCasts(ListCoursesFilter(q))
       THEN /\ res' = ListingError("listCourses", "cast")
            /\ UNCHANGED calls
       ELSE /\ calls' = [calls EXCEPT ![c] =
                           [op |-> "listCourses", pc |-> "reading", q |-> q,
                            issued |-> ListCoursesJoin, completed |-> {},
                            events |-> IssueEvents(ListCoursesReadOrder, ListCoursesJoin),
                            results |-> [page |-> <<>>, count |-> 0, stats |-> <<>>,
                                         categories |-> {}, levels |-> {}]]]
            /\ UNCHANGED res
    /\ UNCHANGED <<courses, blogs, nextBlogId, now, subscribers, users>>

\* The store answers read r of the listCourses call in slot c, and the
\* handler runs on to its next await or to its response.  A rejected read
\* reaches the catch block.
ListCoursesAnswer(c, r, ok) ==
    /\ calls[c].op = "listCourses"
    /\ r \in calls[c].issued \ calls[c].completed
    /\ LET call == calls[c]
           completed == call.completed \cup {r}
           next == ListCoursesNextReads(call.issued, completed)
           results == [call.results EXCEPT ![r] = ListCoursesReadResult(r, call.q)]
       IN  IF ~ok
           THEN /\ res' = ListingError("listCourses", "storage")
                /\ req' = call.q
                /\ failedReads' = {r}
                /\ calls' = [calls EXCEPT ![c] = Idle]
           ELSE IF completed = ListCoursesReadNames
           THEN /\ res' = ListCoursesResponse(call.q, results)
                /\ req' = call.q
                /\ failedReads' = {}
                /\ calls' = [calls EXCEPT ![c] = Idle]
           ELSE /\ calls' = [calls EXCEPT ![c] =
                               [call EXCEPT !.issued = @ \cup next,
                                            !.completed = completed,
                                            !.results = results,
                                            !.events = @ \o <<<<"completed", r>>>>
                                                         \o IssueEvents(ListCoursesReadOrder,
                                                                        next)]]
                /\ UNCHANGED <<req, res, failedReads>>
    /\ UNCHANGED <<courses, blogs, nextBlogId, now, subscribers, users>>

\* listCourses over a store that answers every read or none.
ListCourses(q, storageOk) ==
    ListCoursesReads(q, IF storageOk THEN {} ELSE ListCoursesReadNames)

(***************************************************************************)
(* The blog store.  Errors thrown by a handler wrapped in asyncHandler     *)
(* reach the client with the ApiError's statusCode.                        *)
(***************************************************************************)
\* createBlog: the image is required; createBlogSchema.parse rejects a body
\* whose category is not in the enum (the rejection is not an ApiError: 500);
\* isPublished defaults to true.
CreateBlog(body, image) ==
    /\ nextBlogId <= MaxBlogs
    /\ IF image # "ok"
       THEN /\ res' = Response("createBlog", 400, 0)
            /\ UNCHANGED <<blogs, nextBlogId>>
       ELSE IF ~IsStr(body.category) \/ body.category.s \notin Categories
       THEN /\ res' = Response("createBlog", 500, 0)
            /\ UNCHANGED <<blogs, nextBlogId>>
       ELSE /\ blogs' = [i \in DOMAIN blogs \cup {nextBlogId} |->
                           IF i = nextBlogId
                           THEN [category |-> body.category.s, isPublished |-> TRUE]
                           ELSE blogs[i]]
            /\ nextBlogId' = nextBlogId + 1
            /\ res' = Response("createBlog", 201, nextBlogId)
    /\ UNCHANGED <<courses, now, req, failedReads, calls, subscribers, users>>

\* BlogService.updateBlog: findByIdAndUpdate(id, { ...updateData }); the body
\* is not validated by the controller, isPublished casts to a boolean.
UpdateBlog(id, body) ==
    /\ IF id \notin DOMAIN blogs
       THEN /\ res' = Response("updateBlog", 404, id)
            /\ UNCHANGED blogs
       ELSE /\ blogs' = [blogs EXCEPT ![id].isPublished =
                            IF IsUndef(body.isPublished) THEN @
                            ELSE body.isPublished = Str(TrueStr)]
            /\ res' = Response("updateBlog", 200, id)
    /\ UNCHANGED <<courses, nextBlogId, now, req, failedReads, calls, subscribers, users>>

\* BlogService.deleteBlogById: what is left of the store once blog id is
\* deleted (findByIdAndDelete).
BlogsWithout(id) == [i \in DOMAIN blogs \ {id} |-> blogs[i]]

\* deleteBlog: 404 when findById finds nothing, else the record is removed.
DeleteBlog(id) ==
    /\ IF id \notin DOMAIN blogs
       THEN /\ res' = Response("deleteBlog", 404, id)
            /\ UNCHANGED blogs
       ELSE /\ blogs' = BlogsWithout(id)
            /\ res' = Response("deleteBlog", 200, id)
    /\ UNCHANGED <<courses, nextBlogId, now, req, failedReads, calls, subscribers, users>>

\* getBlogById -> BlogService.findBlogById: findOne({ _id, isPublished: true }).
GetBlogById(id) ==
    /\ res' = Response("getBlogById",
                       IF id \in DOMAIN blogs /\ blogs[id].isPublished THEN 200 ELSE 404, id)
    /\ UNCHANGED <<courses, blogs, nextBlogId, now, req, failedReads, calls, subscribers, users>>

(***************************************************************************)
(* The blog listing: getAllBlogs and getBlogsByCategory call               *)
(* BlogService.findBlogs, whose arithmetic runs on whatever JavaScript     *)
(* values the caller hands it.                                             *)
(***************************************************************************)
Infinity == [t |-> "Infinity", n |-> 0, s |-> <<>>]

IsInfinity(v) == v.t = "Infinity"

\* ToNumber of a JavaScript value: Number(undefined) is NaN, Number("") is 0,
\* a string converts only when the whole of it is a number.
ToNumber(v) ==
    CASE v.t = "number" -> v
      [] v.t = "Infinity" -> v
      [] v.t = "null" -> Num(0)
      [] v.t = "boolean" -> Num(v.n)
      [] v.t = "string" ->
            IF v.s = <<>> THEN Num(0)
            ELSE LET body == IF Head(v.s) \in {"-", "+"} THEN Tail(v.s) ELSE v.s
                 IN  IF body # <<>> /\ DigitPrefixLen(body) = Len(body)
                     THEN ParseDigits(v.s)
                     ELSE NaN
      [] OTHER -> NaN

\* a - b
Minus(a, b) ==
    LET x == ToNumber(a)
        y == ToNumber(b)
    IN  IF IsNum(x) /\ IsNum(y) THEN Num(x.n - y.n)
        ELSE IF IsInfinity(x) /\ IsNum(y) THEN Infinity
        ELSE NaN

\* a * b for operands that are not negative infinities.
Times(a, b) ==
    LET x == ToNumber(a)
        y == ToNumber(b)
    IN  IF IsNum(x) /\ IsNum(y) THEN Num(x.n * y.n) ELSE NaN

\* a + b: string concatenation when either operand is a string.
Plus(a, b) ==
    IF IsStr(a) \/ IsStr(b) THEN Str(ToStringSeq(a) \o ToStringSeq(b))
    ELSE LET x == ToNumber(a)
             y == ToNumber(b)
         IN  IF IsNum(x) /\ IsNum(y) THEN Num(x.n + y.n)
             ELSE IF IsNaN(x) \/ IsNaN(y) THEN NaN
             ELSE Infinity

\* a < b for operands that are not both strings: the numeric comparison,
\* false when either side is NaN.
LessThan(a, b) ==
    LET x == ToNumber(a)
        y == ToNumber(b)
    IN  IF IsNum(x) /\ IsNum(y) THEN x.n < y.n
        ELSE IsNum(x) /\ IsInfinity(y)

\* Math.ceil(total / limit) for a count total >= 0.
CeilQuotient(total, limit) ==
    LET y == ToNumber(limit)
    IN  IF IsNaN(y) THEN NaN
        ELSE IF IsInfinity(y) THEN Num(IF total = 0 THEN 0 ELSE 1)
        ELSE IF y.n = 0 THEN (IF total = 0 THEN NaN ELSE Infinity)
        ELSE IF y.n > 0 THEN Num(CeilDiv(total, y.n))
        ELSE Num(0 - (total \div (0 - y.n)))

\* blogQuerySchema.page: parseInt(val || '1'), then Math.max(1, page), which is
\* NaN when page is NaN.
BlogQueryPage(val) ==
    LET page == ParseInt(IF Truthy(val) THEN val ELSE Str(<<"1">>))
    IN  IF IsNaN(page) THEN NaN ELSE Num(Max(1, page.n))

MaxBlogLimit == 50

\* blogQuerySchema.limit: parseInt(val || '10'), then
\* Math.min(Math.max(1, limit), 50).
BlogQueryLimit(val) ==
    LET limit == ParseInt(IF Truthy(val) THEN val ELSE Str(<<"1", "0">>))
    IN  IF IsNaN(limit) THEN NaN ELSE Num(Min(Max(1, limit.n), MaxBlogLimit))

\* The filter of findBlogs: { isPublished: true } and the category if truthy.
FindBlogsFilter(category) ==
    [isPublished |-> TRUE, category |-> IF Truthy(category) THEN category ELSE Undef]

\* The ids of the blogs matching the filter f.
MatchingBlogs(f) ==
    {i \in DOMAIN blogs :
        /\ blogs[i].isPublished = f.isPublished
        /\ IsUndef(f.category) \/ blogs[i].category = f.category.s}

\* The ids of S, newest first (ids are given in the order of creation).
NewestBlogsFirst(S) ==
    [k \in 1..Cardinality(S) |->
        CHOOSE i \in S : Cardinality({j \in S : j > i}) = k - 1]

\* Whether the store runs find(filter).skip(skip).limit(limit): the skip has
\* to be a whole number >= 0; Query.limit casts a string to a number and
\* refuses one that is none; a NaN limit is refused by the server.
BlogReadAccepted(skip, limit) ==
    /\ IsNum(skip) /\ skip.n >= 0
    /\ IsUndef(limit) \/ IsNum(ToNumber(limit))

\* The page find(filter).sort(...).skip(skip).limit(limit) returns: no limit
\* when limit is undefined or 0, |limit| documents when it is negative.
BlogPageOf(sorted, skip, limit) ==
    LET n == IF IsUndef(limit) THEN 0 ELSE ToNumber(limit).n
        size == IF n = 0 THEN Len(sorted) ELSE IF n < 0 THEN 0 - n ELSE n
    IN  PageOf(sorted, skip.n, size)

\* The pagination block findBlogs computes from page and limit as given.
BlogPagination(page, limit, total) ==
    LET totalPages == CeilQuotient(total, limit)
        hasNext == LessThan(page, totalPages)
        hasPrev == LessThan(Num(1), page)
    IN  [currentPage |-> page,
         totalPages |-> totalPages,
         totalItems |-> total,
         itemsPerPage |-> limit,
         hasNext |-> hasNext,
         hasPrev |-> hasPrev,
         nextPage |-> IF hasNext THEN Plus(page, Num(1)) ELSE Null,
         prevPage |-> IF hasPrev THEN Minus(page, Num(1)) ELSE Null]

\* The reads findBlogs joins with Promise.all.
FindBlogsJoin == {"page", "count"}

\* The sort options of a blog listing and the fields findBlogs sorts by.
BlogSortName ==
    [newest |-> <<"n", "e", "w", "e", "s", "t">>,
     oldest |-> <<"o", "l", "d", "e", "s", "t">>,
     popular |-> <<"p", "o", "p", "u", "l", "a", "r">>,
     createdAt |-> <<"c", "r", "e", "a", "t", "e", "d", "A", "t">>,
     views |-> <<"v", "i", "e", "w", "s">>]

\* sortOptions of findBlogs: the switch over sort sets one key.
FindBlogsSort(sort) ==
    IF sort = Str(BlogSortName.oldest) THEN <<<<BlogSortName.createdAt, 1>>>>
    ELSE IF sort = Str(BlogSortName.popular) THEN <<<<BlogSortName.views, -1>>>>
    ELSE <<<<BlogSortName.createdAt, -1>>>>

\* The orders in which the store returns documents that are equal on every
\* sort key: the store promises none; the model takes the order of insertion
\* and its reverse.
NaturalOrders == {"insertion", "reverse"}

\* The ids of S in the order of the sort.  blogSchema has no views field, so
\* every blog is equal under { views: -1 } and the natural order decides.
BlogsSortedBy(S, sort, natural) ==
    LET newestFirst ==
            IF sort[1][1] = BlogSortName.createdAt THEN sort[1][2] = -1
            ELSE natural = "reverse"
    IN  IF newestFirst THEN NewestBlogsFirst(S)
        ELSE [k \in 1..Cardinality(S) |->
                 NewestBlogsFirst(S)[Cardinality(S) + 1 - k]]

\* BlogService.findBlogs for page, limit, category and sort as the caller
\* hands them in (the requests of the model carry no search).
FindBlogs(op, page, limit, category, sort, natural, storageOk) ==
    LET filter == FindBlogsFilter(category)
        skip == Times(Minus(page, Num(1)), limit)
    IN  IF ~BlogReadAccepted(skip, limit) THEN ListingError(op, "storage")
        ELSE IF ~storageOk THEN ListingError(op, "storage")
        ELSE [Listing(op, filter,
                      BlogPageOf(BlogsSortedBy(MatchingBlogs(filter), FindBlogsSort(sort),
                                               natural),
                                 skip, limit),
                      BlogPagination(page, limit, Cardinality(MatchingBlogs(filter))))
                 EXCEPT !.list.sort = FindBlogsSort(sort)]

\* getAllBlogs: the query goes through blogQuerySchema.parse, which refuses a
\* category or a sort outside its enum and defaults sort to 'newest'.
GetAllBlogs(q, storageOk) ==
    /\ req' = q
    /\ failedReads' = IF storageOk THEN {} ELSE FindBlogsJoin
    /\ \E natural \in NaturalOrders :
          res' = IF \/ IsStr(q.category) /\ q.category.s \notin Categories
                    \/ IsStr(q.sort)
                       /\ q.sort.s \notin {BlogSortName.newest, BlogSortName.oldest,
                                           BlogSortName.popular}
                 THEN ListingError("getAllBlogs", "validation")
                 ELSE FindBlogs("getAllBlogs", BlogQueryPage(q.page),
                                BlogQueryLimit(q.limit), q.category,
                                OrDefault(q.sort, Str(BlogSortName.newest)),
                                natural, storageOk)
    /\ UNCHANGED <<courses, blogs, nextBlogId, now, calls, subscribers, users>>

\* getBlogsByCategory: { ...req.query, category } goes to findBlogs as it is.
GetBlogsByCategory(category, q, storageOk) ==
    /\ req' = [q EXCEPT !.category = category]
    /\ failedReads' = IF storageOk THEN {} ELSE FindBlogsJoin
    /\ \E natural \in NaturalOrders :
          res' = FindBlogs("getBlogsByCategory", q.page, q.limit, category, q.sort,
                           natural, storageOk)
    /\ UNCHANGED <<courses, blogs, nextBlogId, now, calls, subscribers, users>>

\* The query without any parameter.
NoQuery ==
    [page |-> Undef, limit |-> Undef, isActive |-> Undef, search |-> Undef,
     category |-> Undef, hasDiscount |-> Undef, minPrice |-> Undef, maxPrice |-> Undef,
     priceRange |-> Undef, minDiscount |-> Undef, minDiscountPercentage |-> Undef,
     maxDiscountPercentage |-> Undef, minRating |-> Undef, maxRating |-> Undef,
     minDuration |-> Undef, maxDuration |-> Undef, durationRange |-> Undef,
     minStudents |-> Undef, maxStudents |-> Undef, isFeatured |-> Undef, tags |-> Undef,
     sortBy |-> Undef, sortOrder |-> Undef, sort |-> Undef,
     courseId |-> Undef, q |-> Undef, includeCount |-> Undef]

(***************************************************************************)
(* The other public reads of the catalog.  An id in a query string is the   *)
(* decimal number of a course; a string that is no number stands for a      *)
(* string that does not cast to an ObjectId.                                 *)
(***************************************************************************)
\* Whether the string casts to an ObjectId.
ObjectIdValid(v) == IsStr(v) /\ v.s # <<>> /\ DigitPrefixLen(v.s) = Len(v.s)

\* The response of a read that returns courses.
ReadResponse(op, status, id, items) ==
    [Response(op, status, id) EXCEPT !.list.items = items]

\* The response of a read whose catch block answers 500.
ReadError(op, id) == [Response(op, 500, id) EXCEPT !.error = "storage"]

\* { isActive: true }
ActiveCourses == {i \in 1..Len(courses) : courses[i].isActive}

\* findOne by id without the isActive condition.
FindOneIgnoringActive(id) == {i \in 1..Len(courses) : i = id}

\* findOne({ _id: id, isActive: true })
FindActiveById(id) == {i \in ActiveCourses : i = id}

\* findById(id)
FindById(id) == {i \in 1..Len(courses) : i = id}

\* sort({ rating: -1, students: -1 })
ByRatingAndStudents == <<<<SortName.rating, -1>>, <<SortName.students, -1>>>>

\* find(...).limit(Number(limit)): a limit that is no number is refused.
FindLimited(sorted, limit) == BlogPageOf(sorted, Num(0), ToNumber(limit))

\* The reads of the simple handlers fail together.
FailedFind(storageOk) == IF storageOk THEN {} ELSE {"find"}

\* getCourseById: the active course and up to 4 active courses of its
\* category.
GetCourseById(id, storageOk) ==
    /\ req' = NoQuery
    /\ failedReads' = FailedFind(storageOk)
    /\ res' = IF ~storageOk THEN ReadError("getCourseById", id)
              ELSE IF FindActiveById(id) = {} THEN Response("getCourseById", 404, id)
              ELSE ReadResponse("getCourseById", 200, id,
                       PageOf(SortedBy({i \in ActiveCourses \ {id} :
                                           courses[i].category = courses[id].category},
                                       ByRatingAndStudents), 0, 4))
    /\ UNCHANGED <<courses, blogs, nextBlogId, now, calls, subscribers, users>>

\* getSimilarCourses: 400 before any read when courseId is falsy; findById
\* raises a CastError for a string that is no ObjectId; the $or compares
\* category, level, instructor and tags (every course of the model has the
\* default level and no tags).
GetSimilarCourses(q, storageOk) ==
    /\ req' = q
    /\ failedReads' = IF Truthy(q.courseId) THEN FailedFind(storageOk) ELSE {}
    /\ res' = LET id == ParseInt(q.courseId).n
                  limit == OrDefault(q.limit, Num(4))
              IN  IF ~Truthy(q.courseId) THEN Response("getSimilarCourses", 400, 0)
                  ELSE IF ~storageOk \/ ~ObjectIdValid(q.courseId)
                  THEN ReadError("getSimilarCourses", 0)
                  ELSE IF FindById(id) = {} THEN Response("getSimilarCourses", 404, id)
                  ELSE IF ~BlogReadAccepted(Num(0), ToNumber(limit))
                  THEN ReadError("getSimilarCourses", id)
                  ELSE ReadResponse("getSimilarCourses", 200, id,
                           FindLimited(
                               SortedBy({i \in ActiveCourses \ {id} :
                                            \/ courses[i].category = courses[id].category
                                            \/ courses[i].instructor = courses[id].instructor},
                                        ByRatingAndStudents
                                            \o <<<<SortName.createdAt, -1>>>>),
                               limit))
    /\ UNCHANGED <<courses, blogs, nextBlogId, now, calls, subscribers, users>>

\* quickSearchCourses: 400 when q is falsy; new RegExp(q, 'i') throws on an
\* invalid pattern.
QuickSearchCourses(q, storageOk) ==
    /\ req' = q
    /\ failedReads' = IF Truthy(q.q) THEN FailedFind(storageOk) ELSE {}
    /\ res' = LET limit == OrDefault(q.limit, Num(5))
              IN  IF ~Truthy(q.q) THEN Response("quickSearchCourses", 400, 0)
                  ELSE IF \/ ~storageOk
                          \/ ~RegExpValid(q.q.s)
                          \/ ~BlogReadAccepted(Num(0), ToNumber(limit))
                  THEN ReadError("quickSearchCourses", 0)
                  ELSE ReadResponse("quickSearchCourses", 200, 0,
                           FindLimited(
                               SortedBy({i \in ActiveCourses :
                                            \/ RegexMatches(q.q.s, courses[i].title)
                                            \/ RegexMatches(q.q.s, courses[i].instructor)
                                            \/ RegexMatches(q.q.s, courses[i].category)},
                                        ByRatingAndStudents),
                               limit))
    /\ UNCHANGED <<courses, blogs, nextBlogId, now, calls, subscribers, users>>

\* getFeaturedCourses: the active featured courses.
GetFeaturedCourses(q, storageOk) ==
    /\ req' = q
    /\ failedReads' = FailedFind(storageOk)
    /\ res' = LET limit == OrDefault(q.limit, Num(8))
              IN  IF ~storageOk \/ ~BlogReadAccepted(Num(0), ToNumber(limit))
                  THEN ReadError("getFeaturedCourses", 0)
                  ELSE ReadResponse("getFeaturedCourses", 201, 0,
                           FindLimited(SortedBy({i \in ActiveCourses : courses[i].isFeatured},
                                                ByRatingAndStudents),
                                       limit))
    /\ UNCHANGED <<courses, blogs, nextBlogId, now, calls, subscribers, users>>

\* Whether course a comes before course b under { discountPercentage: -1,
\* rating: -1 } with the percentage $addFields computes,
\* (originalPrice - discountedPrice) / originalPrice * 100.
DiscountedBefore(a, b) ==
    LET ca == courses[a]
        cb == courses[b]
        pa == (ca.originalPrice - ca.discountedPrice) * cb.originalPrice
        pb == (cb.originalPrice - cb.discountedPrice) * ca.originalPrice
    IN  IF pa # pb THEN pa > pb
        ELSE IF ca.rating # cb.rating THEN ca.rating > cb.rating
        ELSE a > b

\* getDiscountedCourses: the active courses with a discountedPrice and a
\* positive originalPrice; { $limit: Number(limit) } has to be positive.
GetDiscountedCourses(q, storageOk) ==
    /\ req' = q
    /\ failedReads' = FailedFind(storageOk)
    /\ res' = LET limit == ToNumber(OrDefault(q.limit, Num(8)))
                  S == {i \in ActiveCourses :
                           courses[i].hasDiscountedPrice /\ courses[i].originalPrice > 0}
              IN  IF ~storageOk \/ ~IsNum(limit) \/ limit.n <= 0
                  THEN ReadError("getDiscountedCourses", 0)
                  ELSE ReadResponse("getDiscountedCourses", 201, 0,
                           PageOf([k \in 1..Cardinality(S) |->
                                      CHOOSE i \in S :
                                          Cardinality({j \in S \ {i} : DiscountedBefore(j, i)})
                                              = k - 1],
                                  0, limit.n))
    /\ UNCHANGED <<courses, blogs, nextBlogId, now, calls, subscribers, users>>

\* The number of courses of S per category: { $group: { _id: '$category',
\* count: { $sum: 1 } } }
CategoryCounts(S) ==
    {<<courses[i].category,
       Cardinality({j \in S : courses[j].category = courses[i].category})>> : i \in S}

\* getCategories: the categories of the active courses, with their counts
\* and the count of all active courses when includeCount is truthy.
GetCategories(q, storageOk) ==
    /\ req' = q
    /\ failedReads' = FailedFind(storageOk)
    /\ res' = IF ~storageOk THEN ReadError("getCategories", 0)
              ELSE [Response("getCategories", 201, 0) EXCEPT
                       !.list.facets =
                           IF Truthy(q.includeCount)
                           THEN [categories |-> {<<p[1], Num(p[2])>> :
                                                    p \in CategoryCounts(ActiveCourses)},
                                 total |-> Num(Cardinality(ActiveCourses))]
                           ELSE [categories |-> {<<courses[i].category, Null>> :
                                                    i \in ActiveCourses},
                                 total |-> Null]]
    /\ UNCHANGED <<courses, blogs, nextBlogId, now, calls, subscribers, users>>

\* getCourseStats: the number of active courses and their number per
\* category.
GetCourseStats(storageOk) ==
    /\ req' = NoQuery
    /\ failedReads' = FailedFind(storageOk)
    /\ res' = IF ~storageOk THEN ReadError("getCourseStats", 0)
              ELSE [Response("getCourseStats", 201, 0) EXCEPT
                       !.list.facets =
                           [categories |-> {<<p[1], Num(p[2])>> :
                                               p \in CategoryCounts(ActiveCourses)},
                            total |-> IF ActiveCourses = {} THEN Undef
                                      ELSE Num(Cardinality(ActiveCourses))]]
    /\ UNCHANGED <<courses, blogs, nextBlogId, now, calls, subscribers, users>>

(***************************************************************************)
(* The newsletter.  A handler runs from one await to the next in one step; *)
(* between the steps of one request the steps of another may run.          *)
(***************************************************************************)
\* String.prototype.toLowerCase over the letters the model's emails use.
ToLowerCase(s) == [k \in 1..Len(s) |-> IF s[k] = "A" THEN "a" ELSE s[k]]

\* /\S+@\S+\.\S+/.test(email): somewhere in the text a run of non-space
\* characters, '@', a run of non-space characters, '.', and a non-space
\* character.
EmailValid(s) ==
    \E i, j \in 1..Len(s) :
        /\ 1 < i /\ i + 1 < j /\ j < Len(s)
        /\ s[i] = "@" /\ s[j] = "."
        /\ \A k \in (i - 1)..(j + 1) : s[k] # " "

\* The ids of the subscriber records with the email e (the unique index on
\* email keeps them at one at most).
SubscribersWith(e) == {i \in 1..Len(subscribers) : subscribers[i].email = e}

\* The answer of a request: its slot holds the status until its next request.
Answered(call, status) == [op |-> call.op, pc |-> "done", email |-> call.email,
                           status |-> status]

\* Whether slot c can take a request.
SlotFree(c) == calls[c].pc \in {"idle", "done"}

\* A resubscription that would keep the date of the unsubscription.
ResubscribedKeepingDate(s) == [s EXCEPT !.status = "active"]

\* existingSubscriber.status = 'active'; .unsubscribedAt = undefined
Resubscribed(s) == [s EXCEPT !.status = "active", !.unsubscribedAt = FALSE]

\* subscriber.status = 'inactive'; .unsubscribedAt = new Date()
Unsubscribed(s) == [s EXCEPT !.status = "inactive", !.unsubscribedAt = TRUE]

\* new Subscriber({ email, source, status: 'active', subscribedAt })
NewSubscriber(e) == [email |-> e, status |-> "active", unsubscribedAt |-> FALSE]

\* subscribeUser from its start to the await of findOne.
SubscribeUser(c, body) ==
    /\ SlotFree(c)
    /\ IF ~Truthy(body.email) \/ ~EmailValid(body.email.s)
       THEN /\ calls' = [calls EXCEPT ![c] =
                           Answered([op |-> "subscribeUser", email |-> <<>>], 400)]
            /\ res' = Response("subscribeUser", 400, 0)
       ELSE /\ calls' = [calls EXCEPT ![c] =
                           [op |-> "subscribeUser", pc |-> "findOne",
                            email |-> ToLowerCase(body.email.s), found |-> 0]]
            /\ UNCHANGED res
    /\ UNCHANGED <<courses, blogs, nextBlogId, now, req, failedReads, subscribers, users>>

\* The store answers findOne({ email }) of subscribeUser: an active record is
\* answered 400, an inactive one is changed and saved, none is created.
SubscribeUserFindOne(c) ==
    /\ calls[c].op = "subscribeUser" /\ calls[c].pc = "findOne"
    /\ LET call == calls[c]
           found == SubscribersWith(call.email)
       IN  IF found = {}
           THEN /\ calls' = [calls EXCEPT ![c] = [call EXCEPT !.pc = "saveNew"]]
                /\ UNCHANGED res
           ELSE LET id == CHOOSE i \in found : TRUE
                IN  IF subscribers[id].status = "active"
                    THEN /\ calls' = [calls EXCEPT ![c] = Answered(call, 400)]
                         /\ res' = Response("subscribeUser", 400, id)
                    ELSE /\ calls' = [calls EXCEPT ![c] =
                                        [call EXCEPT !.pc = "saveExisting", !.found = id]]
                         /\ UNCHANGED res
    /\ UNCHANGED <<courses, blogs, nextBlogId, now, req, failedReads, subscribers, users>>

\* The store executes the save of subscribeUser.  The insert of a second
\* record with the same email violates the unique index (E11000): the save
\* rejects and the catch block answers 500.
SubscribeUserSave(c) ==
    /\ calls[c].op = "subscribeUser" /\ calls[c].pc \in {"saveNew", "saveExisting"}
    /\ LET call == calls[c]
       IN  IF call.pc = "saveExisting"
           THEN /\ subscribers' = [subscribers EXCEPT ![call.found] = Resubscribed(@)]
                /\ calls' = [calls EXCEPT ![c] = Answered(call, 200)]
                /\ res' = Response("subscribeUser", 200, call.found)
           ELSE IF SubscribersWith(call.email) # {}
           THEN /\ calls' = [calls EXCEPT ![c] = Answered(call, 500)]
                /\ res' = Response("subscribeUser", 500, 0)
                /\ UNCHANGED subscribers
           ELSE /\ subscribers' = Append(subscribers, NewSubscriber(call.email))
                /\ calls' = [calls EXCEPT ![c] = Answered(call, 201)]
                /\ res' = Response("subscribeUser", 201, Len(subscribers) + 1)
    /\ UNCHANGED <<courses, blogs, nextBlogId, now, req, failedReads, users>>

\* unsubscribeUser from its start to the await of findOne.
UnsubscribeUser(c, body) ==
    /\ SlotFree(c)
    /\ IF ~Truthy(body.email)
       THEN /\ calls' = [calls EXCEPT ![c] =
                           Answered([op |-> "unsubscribeUser", email |-> <<>>], 400)]
            /\ res' = Response("unsubscribeUser", 400, 0)
       ELSE /\ calls' = [calls EXCEPT ![c] =
                           [op |-> "unsubscribeUser", pc |-> "findOne",
                            email |-> ToLowerCase(body.email.s), found |-> 0]]
            /\ UNCHANGED res
    /\ UNCHANGED <<courses, blogs, nextBlogId, now, req, failedReads, subscribers, users>>

\* The store answers findOne({ email }) of unsubscribeUser: 404 for no
\* record, 400 for an inactive one, an active one is changed and saved.
UnsubscribeUserFindOne(c) ==
    /\ calls[c].op = "unsubscribeUser" /\ calls[c].pc = "findOne"
    /\ LET call == calls[c]
           found == SubscribersWith(call.email)
       IN  IF found = {}
           THEN /\ calls' = [calls EXCEPT ![c] = Answered(call, 404)]
                /\ res' = Response("unsubscribeUser", 404, 0)
           ELSE LET id == CHOOSE i \in found : TRUE
                IN  IF subscribers[id].status = "inactive"
                    THEN /\ calls' = [calls EXCEPT ![c] = Answered(call, 400)]
                         /\ res' = Response("unsubscribeUser", 400, id)
                    ELSE /\ calls' = [calls EXCEPT ![c] =
                                        [call EXCEPT !.pc = "save", !.found = id]]
                         /\ UNCHANGED res
    /\ UNCHANGED <<courses, blogs, nextBlogId, now, req, failedReads, subscribers, users>>

\* The store executes the save of unsubscribeUser.
UnsubscribeUserSave(c) ==
    /\ calls[c].op = "unsubscribeUser" /\ calls[c].pc = "save"
    /\ subscribers' = [subscribers EXCEPT ![calls[c].found] = Unsubscribed(@)]
    /\ calls' = [calls EXCEPT ![c] = Answered(calls[c], 200)]
    /\ res' = Response("unsubscribeUser", 200, calls[c].found)
    /\ UNCHANGED <<courses, blogs, nextBlogId, now, req, failedReads, users>>

(***************************************************************************)
(* Refresh tokens.  A refresh token is jwt.sign({ _id }, secret,           *)
(* { expiresIn: '10d' }): its text is determined by the user and by the    *)
(* second it is issued in (iat), so two tokens issued to one user within   *)
(* the same second are the same token.  The model has one user; `now` is   *)
(* the clock, in seconds.                                                  *)
(***************************************************************************)
\* user.generateRefreshToken() at the time now.
GenerateRefreshToken == [iat |-> now]

\* A second passes.
Tick ==
    /\ now < MaxTime
    /\ now' = now + 1
    /\ UNCHANGED <<courses, blogs, nextBlogId, req, res, failedReads, calls, subscribers,
                   users>>

\* loginUser with the credentials of the user: the tokens are generated and
\* the refresh token is stored.
LoginUser ==
    /\ users' = [users EXCEPT ![1].refreshToken = GenerateRefreshToken]
    /\ res' = Response("loginUser", 200, 1)
    /\ UNCHANGED <<courses, blogs, nextBlogId, now, req, failedReads, calls, subscribers>>

\* logoutUser: findByIdAndUpdate with $unset of refreshToken.
LogoutUser ==
    /\ users' = [users EXCEPT ![1].refreshToken = NoToken]
    /\ res' = Response("logoutUser", 200, 1)
    /\ UNCHANGED <<courses, blogs, nextBlogId, now, req, failedReads, calls, subscribers>>

\* The answer of a refresh request: the status and the refresh token it
\* returns.
Refreshed(call, status, token) ==
    [op |-> call.op, pc |-> "done", token |-> call.token, status |-> status,
     fresh |-> token]

\* refreshAccessToken from its start to the await of findById: a request
\* without a token is answered 401; jwt.verify accepts a token the server
\* signed that has not expired (the model's clock stays within the ten days).
RefreshAccessToken(c, token) ==
    /\ SlotFree(c)
    /\ IF token = NoToken
       THEN /\ calls' = [calls EXCEPT ![c] =
                           Refreshed([op |-> "refreshAccessToken", token |-> token], 401,
                                     NoToken)]
            /\ res' = Response("refreshAccessToken", 401, 0)
       ELSE /\ calls' = [calls EXCEPT ![c] =
                           [op |-> "refreshAccessToken", pc |-> "findById",
                            token |-> token, fresh |-> NoToken]]
            /\ UNCHANGED res
    /\ UNCHANGED <<courses, blogs, nextBlogId, now, req, failedReads, subscribers, users>>

\* The store answers findById of refreshAccessToken: a token other than the
\* stored one is answered 401, the stored one goes on to
\* generateAccessAndRefereshTokens and its await of findById.
RefreshAccessTokenFindById(c) ==
    /\ calls[c].op = "refreshAccessToken" /\ calls[c].pc = "findById"
    /\ IF calls[c].token # users[1].refreshToken
       THEN /\ calls' = [calls EXCEPT ![c] = Refreshed(calls[c], 401, NoToken)]
            /\ res' = Response("refreshAccessToken", 401, 1)
       ELSE /\ calls' = [calls EXCEPT ![c].pc = "generate"]
            /\ UNCHANGED res
    /\ UNCHANGED <<courses, blogs, nextBlogId, now, req, failedReads, subscribers, users>>

\* The store answers findById of generateAccessAndRefereshTokens: the tokens
\* are generated and the save of the user is awaited.
GenerateAccessAndRefereshTokens(c) ==
    /\ calls[c].op = "refreshAccessToken" /\ calls[c].pc = "generate"
    /\ calls' = [calls EXCEPT ![c].pc = "save", ![c].fresh = GenerateRefreshToken]
    /\ UNCHANGED <<courses, blogs, nextBlogId, now, req, res, failedReads, subscribers,
                   users>>

\* The store executes user.save of generateAccessAndRefereshTokens, and
\* refreshAccessToken answers 200 with the new tokens.
GenerateAccessAndRefereshTokensSave(c) ==
    /\ calls[c].op = "refreshAccessToken" /\ calls[c].pc = "save"
    /\ users' = [users EXCEPT ![1].refreshToken = calls[c].fresh]
    /\ calls' = [calls EXCEPT ![c] = Refreshed(calls[c], 200, calls[c].fresh)]
    /\ res' = Response("refreshAccessToken", 200, 1)
    /\ UNCHANGED <<courses, blogs, nextBlogId, now, req, failedReads, subscribers>>

(***************************************************************************)
(* Requests the catalog specification draws from.                          *)
(***************************************************************************)
\* Form values of a price field: absent, empty, not a number, negative, and
\* every price 0..MaxPrice.
PriceInputs ==
    {Undef, Str(<<>>), Str(<<"x">>), Str(<<"-", "1">>)}
        \cup {Str(<<DigitChar(n)>>) : n \in 0..MaxPrice}

ClientPercentages == {Undef, Str(<<"7">>)}

\* Bodies of createCourse / updateCourse whose prices, client percentage and
\* isActive are drawn from the given sets.
CourseBodiesOver(titles, categories, prices, discounts, percentages, actives) ==
    [title : titles, category : categories,
     originalPrice : prices, discountedPrice : discounts,
     discountPercentage : percentages,
     isFeatured : {Undef}, isActive : actives,
     rating : {Undef}, students : {Undef}, totalHours : {Undef}]

\* The catalog specification: a full price, a half-price discount or none.
CourseBodies ==
    CourseBodiesOver({Str(<<"a">>)}, {Str(Backend)}, {Str(<<DigitChar(MaxPrice)>>)},
                     {Undef, Str(<<"1">>)}, {Undef}, {Undef})

CourseUpdateBodies ==
    CourseBodiesOver({Undef}, {Undef}, {Undef, Str(<<"1">>)},
                     {Undef}, {Undef}, {Undef, Str(FalseStr)})

\* The price specification: every price input on create and on update.
PriceBodies ==
    CourseBodiesOver({Str(<<"a">>)}, {Str(Backend)}, PriceInputs, PriceInputs,
                     ClientPercentages, {Undef})

PriceUpdateBodies ==
    CourseBodiesOver({Undef}, {Undef}, PriceInputs, PriceInputs,
                     ClientPercentages, {Undef})

BlogBodies == [category : {Str(Backend), Str(<<"x">>)}, isPublished : {Undef}]

BlogUpdateBodies == [category : {Undef}, isPublished : {Undef, Str(FalseStr)}]

Uploads == {"none", "ok"}

NoRequest == <<>>

NoResponse == Response("none", 0, 0)

Init ==
    /\ courses = <<>>
    /\ blogs = <<>>
    /\ nextBlogId = 1
    /\ now = 0
    /\ req = NoRequest
    /\ res = NoResponse
    /\ failedReads = {}
    /\ calls = NoCalls
    /\ subscribers = <<>>
    /\ users = NoUsers

Next ==
    \/ \E body \in CourseBodies, image \in Uploads : CreateCourse(body, image)
    \/ \E id \in 1..MaxCourses, body \in CourseUpdateBodies : UpdateCourse(id, body)
    \/ \E id \in 1..MaxCourses : DeleteCourse(id)
    \/ \E body \in BlogBodies, image \in Uploads : CreateBlog(body, image)
    \/ \E id \in 1..MaxBlogs, body \in BlogUpdateBodies : UpdateBlog(id, body)
    \/ \E id \in 1..MaxBlogs : DeleteBlog(id)
    \/ \E id \in 1..MaxBlogs : GetBlogById(id)

Spec == Init /\ [][Next]_vars

NextPrices ==
    \/ \E body \in PriceBodies : CreateCourse(body, "ok")
    \/ \E id \in 1..MaxCourses, body \in PriceUpdateBodies : UpdateCourse(id, body)
    \/ \E id \in 1..MaxCourses : DeleteCourse(id)

SpecPrices == Init /\ [][NextPrices]_vars

(***************************************************************************)
(* Requests of the listing endpoints.                                      *)
(***************************************************************************)
\* The strings of length n over the characters of set A.
StringsOfLen(A, n) == [1..n -> A]

\* Values of page and limit: absent, or a string of at most MaxLen characters
\* out of digits, a sign and a letter.
PagingChars == {"0", "1", "-", "x"}

PagingInputs ==
    {Undef} \cup {Str(s) : s \in UNION {StringsOfLen(PagingChars, n) : n \in 0..MaxLen}}

PagingQueries ==
    {[NoQuery EXCEPT !.page = p, !.limit = l] : p \in PagingInputs, l \in PagingInputs}

\* The paging specification: one request with any page and limit, handled by
\* either endpoint.
InitPaging ==
    /\ courses = <<>>
    /\ blogs = <<>>
    /\ nextBlogId = 1
    /\ now = 0
    /\ req \in PagingQueries
    /\ res = NoResponse
    /\ failedReads = {}
    /\ calls = NoCalls
    /\ subscribers = <<>>
    /\ users = NoUsers

NextPaging ==
    \/ res = NoResponse /\ \E ok \in BOOLEAN : GetCourses(req, ok)
    \/ res = NoResponse /\ \E ok \in BOOLEAN : ListCourses(req, ok)

SpecPaging == InitPaging /\ [][NextPaging]_vars

\* The numeric and the boolean parameters of the two endpoints.
NumericParams ==
    {"minPrice", "maxPrice", "minRating", "maxRating", "minDuration", "maxDuration",
     "minStudents", "maxStudents", "minDiscount", "minDiscountPercentage",
     "maxDiscountPercentage"}

BooleanParams == {"isActive", "isFeatured", "hasDiscount"}

PatternParams == {"search", "tags"}

NumericInputs == {Str(<<>>), Str(<<"x">>), Str(<<"1">>)}

BooleanInputs == {Str(TrueStr), Str(FalseStr), Str(<<"x">>), Str(<<>>)}

\* Patterns of at most MaxLen characters out of a letter and the parentheses.
PatternInputs ==
    {Str(s) : s \in UNION {StringsOfLen({"a", "(", ")"}, n) : n \in 0..MaxLen}}

\* Queries with one parameter set, and queries with a pattern and a number.
FilterQueries ==
    {NoQuery}
        \cup {[NoQuery EXCEPT ![p] = v] : p \in NumericParams, v \in NumericInputs}
        \cup {[NoQuery EXCEPT ![p] = v] : p \in BooleanParams, v \in BooleanInputs}
        \cup {[NoQuery EXCEPT ![p] = v] : p \in PatternParams, v \in PatternInputs}
        \cup {[NoQuery EXCEPT !.priceRange = v] : v \in {Str(Free), Str(<<"x">>)}}

\* The filter specification: one request, handled by either endpoint over a
\* store that answers or fails.
InitFilters ==
    /\ courses = <<>>
    /\ blogs = <<>>
    /\ nextBlogId = 1
    /\ now = 0
    /\ req \in FilterQueries
    /\ res = NoResponse
    /\ failedReads = {}
    /\ calls = NoCalls
    /\ subscribers = <<>>
    /\ users = NoUsers

SpecFilters == InitFilters /\ [][NextPaging]_vars

\* The visibility specification: courses active and soft-deleted, blogs
\* published and unpublished, and the four listing endpoints with and without
\* an explicit isActive.
ActiveCourseBodies ==
    CourseBodiesOver({Str(<<"a">>)}, {Str(Backend)}, {Str(<<DigitChar(MaxPrice)>>)},
                     {Str(<<"1">>)}, {Undef}, {Undef})

ActiveQueries ==
    {NoQuery,
     [NoQuery EXCEPT !.isActive = Str(FalseStr)],
     [NoQuery EXCEPT !.search = Str(<<"a">>)],
     [NoQuery EXCEPT !.hasDiscount = Str(TrueStr)],
     [NoQuery EXCEPT !.hasDiscount = Str(FalseStr)],
     [NoQuery EXCEPT !.category = Str(Backend), !.minPrice = Str(<<"1">>)]}

PublishedBlogBodies == [category : {Str(Backend)}, isPublished : {Undef}]

UnpublishBodies == [category : {Undef}, isPublished : {Str(FalseStr)}]

OnePerPage == [NoQuery EXCEPT !.page = Str(<<"1">>), !.limit = Str(<<"1">>)]

NextActive ==
    \/ \E body \in ActiveCourseBodies : CreateCourse(body, "ok")
    \/ \E id \in 1..MaxCourses : DeleteCourse(id)
    \/ \E body \in PublishedBlogBodies : CreateBlog(body, "ok")
    \/ \E id \in 1..MaxBlogs, body \in UnpublishBodies : UpdateBlog(id, body)
    \/ \E q \in ActiveQueries, ok \in BOOLEAN : GetCourses(q, ok)
    \/ \E q \in ActiveQueries, ok \in BOOLEAN : ListCourses(q, ok)
    \/ \E q \in {NoQuery, OnePerPage}, ok \in BOOLEAN : GetAllBlogs(q, ok)
    \/ \E q \in {NoQuery, OnePerPage}, ok \in BOOLEAN :
            GetBlogsByCategory(Str(Backend), q, ok)

SpecActive == Init /\ [][NextActive]_vars

\* The discount specification: courses without a discounted price, with a
\* discounted price of 0 and with a positive one, listed under every value of
\* hasDiscount, with and without a search term.
DiscountCourseBodies ==
    CourseBodiesOver({Str(<<"a">>), Str(<<"b">>)}, {Str(Backend)},
                     {Str(<<DigitChar(MaxPrice)>>)},
                     {Undef, Str(<<"0">>), Str(<<"1">>)}, {Undef}, {Undef})

DiscountQueries ==
    {[NoQuery EXCEPT !.hasDiscount = h, !.search = s, !.category = c] :
        h \in {Undef, Str(TrueStr), Str(FalseStr)},
        s \in {Undef, Str(<<"a">>)},
        c \in {Undef, Str(Frontend)}}

NextDiscount ==
    \/ \E body \in DiscountCourseBodies : CreateCourse(body, "ok")
    \/ \E q \in DiscountQueries, ok \in BOOLEAN : GetCourses(q, ok)
    \/ \E q \in DiscountQueries, ok \in BOOLEAN : ListCourses(q, ok)

SpecDiscount == Init /\ [][NextDiscount]_vars

\* The pagination specification: a few courses and blogs, listed page by page.
PageCourseBodies ==
    CourseBodiesOver({Str(<<"a">>)}, {Str(Backend)}, {Str(<<DigitChar(MaxPrice)>>)},
                     {Undef}, {Undef}, {Undef})

PageQueries ==
    {[NoQuery EXCEPT !.page = p, !.limit = l] :
        p \in {Undef, Str(<<"1">>), Str(<<"2">>), Str(<<"3">>)},
        l \in {Undef, Str(<<"1">>), Str(<<"2">>)}}

NextPages ==
    \/ \E body \in PageCourseBodies : CreateCourse(body, "ok")
    \/ \E body \in PublishedBlogBodies : CreateBlog(body, "ok")
    \/ \E q \in PageQueries, ok \in BOOLEAN : GetCourses(q, ok)
    \/ \E q \in PageQueries, ok \in BOOLEAN : ListCourses(q, ok)
    \/ \E q \in PageQueries, ok \in BOOLEAN : GetAllBlogs(q, ok)
    \/ \E q \in PageQueries, ok \in BOOLEAN : GetBlogsByCategory(Str(Backend), q, ok)

SpecPages == Init /\ [][NextPages]_vars

\* The storage-failure specification: a few courses, listed while the store
\* fails any of the reads of the call.
ReadQueries == {NoQuery, [NoQuery EXCEPT !.category = Str(Frontend)]}

NextReads ==
    \/ \E body \in PageCourseBodies : CreateCourse(body, "ok")
    \/ \E q \in ReadQueries, failed \in SUBSET GetCoursesJoin : GetCoursesReads(q, failed)
    \/ \E q \in ReadQueries, failed \in SUBSET ListCoursesReadNames :
            ListCoursesReads(q, failed)

SpecReads == Init /\ [][NextReads]_vars

\* The sort specification: courses of different durations, listed under every
\* sortBy the switches name, createdAt, a field outside the switches (level,
\* which no course of the model sets) and every sortOrder.
SortCourseBodies ==
    {[b EXCEPT !.totalHours = h] : b \in PageCourseBodies, h \in {Undef, Str(<<"1">>)}}

SortByInputs ==
    {Undef, Str(<<"l", "e", "v", "e", "l">>)}
        \cup {Str(SortName[k]) :
                k \in {"createdAt", "price", "discountedPrice", "rating", "students",
                       "duration", "discount", "popularity", "trending"}}

SortOrderInputs == {Undef, Str(SortName.asc), Str(SortName.desc), Str(<<"x">>)}

SortQueries ==
    {[NoQuery EXCEPT !.sortBy = by, !.sortOrder = order] :
        by \in SortByInputs, order \in SortOrderInputs}

NextSort ==
    \/ \E body \in SortCourseBodies : CreateCourse(body, "ok")
    \/ \E q \in SortQueries : GetCourses(q, TRUE)
    \/ \E q \in SortQueries : ListCourses(q, TRUE)

SpecSort == Init /\ [][NextSort]_vars

\* The facet specification: courses of two categories, cheap and short or
\* expensive and long, listed with and without a category and a minimum
\* price, page by page.
FacetCourseBodies ==
    {[b EXCEPT !.totalHours = IF b.originalPrice = Str(<<"1">>) THEN Undef ELSE Str(<<"1">>)] :
        b \in CourseBodiesOver({Str(<<"a">>)}, {Str(Backend), Str(Frontend)},
                               {Str(<<"1">>), Str(<<DigitChar(MaxPrice)>>)},
                               {Undef}, {Undef}, {Undef})}

FacetQueries ==
    {[NoQuery EXCEPT !.category = c, !.minPrice = m, !.page = p, !.limit = l] :
        c \in {Undef, Str(Backend)}, m \in {Undef, Str(<<DigitChar(MaxPrice)>>)},
        p \in {Undef, Str(<<"2">>)}, l \in {Undef, Str(<<"1">>)}}

NextFacets ==
    \/ \E body \in FacetCourseBodies : CreateCourse(body, "ok")
    \/ \E q \in FacetQueries : GetCourses(q, TRUE)
    \/ \E q \in FacetQueries : ListCourses(q, TRUE)

SpecFacets == Init /\ [][NextFacets]_vars

\* The category specification: one request whose category is absent, the
\* sentinel or a name, with every combination of a few other parameters,
\* handled by either endpoint.
CategoryQueries ==
    {[NoQuery EXCEPT !.category = c, !.search = s, !.hasDiscount = h, !.minPrice = m,
                     !.isActive = a] :
        c \in {Undef, Str(AllCourses), Str(Backend)},
        s \in {Undef, Str(<<"a">>)},
        h \in {Undef, Str(TrueStr), Str(FalseStr)},
        m \in {Undef, Str(<<"1">>)},
        a \in {Undef, Str(FalseStr)}}

InitCategory ==
    /\ courses = <<>>
    /\ blogs = <<>>
    /\ nextBlogId = 1
    /\ now = 0
    /\ req \in CategoryQueries
    /\ res = NoResponse
    /\ failedReads = {}
    /\ calls = NoCalls
    /\ subscribers = <<>>
    /\ users = NoUsers

SpecCategory == InitCategory /\ [][NextPaging]_vars

\* The partial update specification: featured and plain courses, deleted and
\* updated by requests that carry a title, a price, both or neither and never
\* isActive or isFeatured.
PartialCourseBodies ==
    {[b EXCEPT !.isFeatured = f] :
        b \in CourseBodiesOver({Str(<<"a">>), Str(<<"c">>)}, {Str(Backend)},
                               {Str(<<DigitChar(MaxPrice)>>)}, {Undef}, {Undef}, {Undef}),
        f \in {Undef, Str(TrueStr)}}

PartialUpdateBodies ==
    CourseBodiesOver({Undef, Str(<<"b">>)}, {Undef}, {Undef, Str(<<"1">>)},
                     {Undef}, {Undef}, {Undef})

NextPartial ==
    \/ \E body \in PartialCourseBodies : CreateCourse(body, "ok")
    \/ \E id \in 1..MaxCourses, body \in PartialUpdateBodies : UpdateCourse(id, body)
    \/ \E id \in 1..MaxCourses : DeleteCourse(id)

SpecPartial == Init /\ [][NextPartial]_vars

\* The blog paging specification: one getAllBlogs request with any page and
\* limit, over a store that answers or fails.
NextBlogPaging ==
    /\ res = NoResponse
    /\ \E ok \in BOOLEAN : GetAllBlogs(req, ok)

SpecBlogPaging == InitPaging /\ [][NextBlogPaging]_vars

\* The blog sort specification: published blogs of two categories, listed
\* under every sort option, an unknown one and none.
SortBlogBodies == [category : {Str(Backend), Str(Frontend)}, isPublished : {Undef}]

BlogSortQueries ==
    {[NoQuery EXCEPT !.sort = s, !.limit = l] :
        s \in {Undef, Str(BlogSortName.newest), Str(BlogSortName.oldest),
               Str(BlogSortName.popular), Str(<<"x">>)},
        l \in {Str(<<"1">>), Str(<<"2">>)}}

NextBlogSort ==
    \/ \E body \in SortBlogBodies : CreateBlog(body, "ok")
    \/ \E q \in BlogSortQueries : GetAllBlogs(q, TRUE)
    \/ \E q \in BlogSortQueries : GetBlogsByCategory(Str(Backend), q, TRUE)

SpecBlogSort == Init /\ [][NextBlogSort]_vars

\* The preset specification: one listCourses request with a priceRange and a
\* durationRange token (absent, empty, every name of the tables, an unknown
\* word, a name objects inherit), with and without a minimum price.
PresetQueries ==
    {[NoQuery EXCEPT !.priceRange = p, !.durationRange = d, !.minPrice = m] :
        p \in {Undef, Str(<<>>), Str(<<"x">>), Str(<<"c", "o", "n", "s", "t", "r", "u", "c", "t", "o", "r">>)}
                \cup {Str(name) : name \in DOMAIN PriceRanges},
        d \in {Undef, Str(<<"x">>), Str(<<"t", "o", "S", "t", "r", "i", "n", "g">>)}
                \cup {Str(name) : name \in DOMAIN DurationRanges},
        m \in {Undef, Str(<<"1">>)}}

InitPresets ==
    /\ courses = <<>>
    /\ blogs = <<>>
    /\ nextBlogId = 1
    /\ now = 0
    /\ req \in PresetQueries
    /\ res = NoResponse
    /\ failedReads = {}
    /\ calls = NoCalls
    /\ subscribers = <<>>
    /\ users = NoUsers

NextPresets ==
    /\ res = NoResponse
    /\ \E ok \in BOOLEAN : ListCourses(req, ok)

SpecPresets == InitPresets /\ [][NextPresets]_vars

\* The similar courses specification: courses of two categories, some of
\* them soft-deleted, and lookups with no courseId, an empty one, the id of a
\* stored course, an id no course has and a string that is no id.
SimilarCourseBodies ==
    CourseBodiesOver({Str(<<"a">>)}, {Str(Backend), Str(Frontend)},
                     {Str(<<DigitChar(MaxPrice)>>)}, {Undef}, {Undef}, {Undef})

SimilarQueries ==
    {[NoQuery EXCEPT !.courseId = c, !.limit = l] :
        c \in {Undef, Str(<<>>), Str(<<"x">>)}
                \cup {Str(<<DigitChar(n)>>) : n \in 1..(MaxCourses + 1)},
        l \in {Undef, Str(<<"1">>)}}

NextSimilar ==
    \/ \E body \in SimilarCourseBodies : CreateCourse(body, "ok")
    \/ \E id \in 1..MaxCourses : DeleteCourse(id)
    \/ \E q \in SimilarQueries, ok \in BOOLEAN : GetSimilarCourses(q, ok)

SpecSimilar == Init /\ [][NextSimilar]_vars

\* The public reads specification: featured, discounted courses of two
\* categories that are deleted and updated, and every public read without an
\* isActive parameter.
PublicCourseBodies ==
    {[b EXCEPT !.isFeatured = Str(TrueStr)] :
        b \in CourseBodiesOver({Str(<<"a">>)}, {Str(Backend), Str(Frontend)},
                               {Str(<<DigitChar(MaxPrice)>>)}, {Str(<<"1">>)}, {Undef},
                               {Undef})}

PublicUpdateBodies ==
    CourseBodiesOver({Undef}, {Undef}, {Str(<<DigitChar(MaxPrice)>>)}, {Undef}, {Undef},
                     {Undef})

NextPublic ==
    \/ \E body \in PublicCourseBodies : CreateCourse(body, "ok")
    \/ \E id \in 1..MaxCourses, body \in PublicUpdateBodies : UpdateCourse(id, body)
    \/ \E id \in 1..MaxCourses : DeleteCourse(id)
    \/ \E id \in 1..MaxCourses : GetCourseById(id, TRUE)
    \/ GetCourses(NoQuery, TRUE)
    \/ ListCourses(NoQuery, TRUE)
    \/ GetFeaturedCourses(NoQuery, TRUE)
    \/ GetDiscountedCourses(NoQuery, TRUE)
    \/ QuickSearchCourses([NoQuery EXCEPT !.q = Str(<<"a">>)], TRUE)
    \/ \E id \in 1..MaxCourses :
            GetSimilarCourses([NoQuery EXCEPT !.courseId = Str(NatToDigits(id))], TRUE)
    \/ \E c \in {Undef, Str(<<"1">>)} :
            GetCategories([NoQuery EXCEPT !.includeCount = c], TRUE)
    \/ \E ok \in BOOLEAN : GetCourseStats(ok)

SpecPublic == Init /\ [][NextPublic]_vars

\* The search specification: Frontend courses titled 'a' and 'b', with and
\* without a discounted price, listed with and without a search for 'a' under
\* every value of hasDiscount.
SearchCourseBodies ==
    CourseBodiesOver({Str(<<"a">>), Str(<<"b">>)}, {Str(Frontend)},
                     {Str(<<DigitChar(MaxPrice)>>)}, {Undef, Str(<<"1">>)}, {Undef},
                     {Undef})

SearchQueries ==
    {[NoQuery EXCEPT !.hasDiscount = h, !.search = s] :
        h \in {Undef, Str(TrueStr), Str(FalseStr)},
        s \in {Undef, Str(<<"a">>)}}

NextSearch ==
    \/ \E body \in SearchCourseBodies : CreateCourse(body, "ok")
    \/ \E q \in SearchQueries : GetCourses(q, TRUE)
    \/ \E q \in SearchQueries : ListCourses(q, TRUE)

SpecSearch == Init /\ [][NextSearch]_vars

\* The interleaving specification: courses of two categories created and
\* soft-deleted while the reads of listCourses calls are in flight.
InterleavedCourseBodies ==
    CourseBodiesOver({Str(<<"a">>)}, {Str(Backend), Str(Frontend)},
                     {Str(<<DigitChar(MaxPrice)>>)}, {Undef}, {Undef}, {Undef})

NextInterleaved ==
    \/ \E body \in InterleavedCourseBodies : CreateCourse(body, "ok")
    \/ \E id \in 1..MaxCourses : DeleteCourse(id)
    \/ ListCoursesIssue(1, NoQuery)
    \/ \E r \in ListCoursesReadNames, ok \in BOOLEAN : ListCoursesAnswer(1, r, ok)

SpecInterleaved == Init /\ [][NextInterleaved]_vars

\* The newsletter specification: subscriptions and unsubscriptions of two
\* addresses, one of them also in upper case, of a text that is no address
\* and of no email, two requests at a time.
EmailA == <<"a", "@", "b", ".", "c">>

EmailBodies ==
    [email : {Undef, Str(<<"x">>), Str(EmailA), Str(<<"A", "@", "b", ".", "c">>),
              Str(<<"d", "@", "b", ".", "c">>)}]

NextNewsletter ==
    \/ \E c \in CallIds, body \in EmailBodies : SubscribeUser(c, body)
    \/ \E c \in CallIds : SubscribeUserFindOne(c)
    \/ \E c \in CallIds : SubscribeUserSave(c)
    \/ \E c \in CallIds, body \in EmailBodies : UnsubscribeUser(c, body)
    \/ \E c \in CallIds : UnsubscribeUserFindOne(c)
    \/ \E c \in CallIds : UnsubscribeUserSave(c)

SpecNewsletter == Init /\ [][NextNewsletter]_vars

\* The subscription race specification: each request slot serves one
\* subscribeUser request, over a store without subscribers.
RaceBodies == EmailBodies \cup [email : {Str(<<"e", "@", "b", ".", "c">>)}]

NextSubscribeRace ==
    \/ \E c \in CallIds, body \in RaceBodies : calls[c] = Idle /\ SubscribeUser(c, body)
    \/ \E c \in CallIds : SubscribeUserFindOne(c)
    \/ \E c \in CallIds : SubscribeUserSave(c)

SpecSubscribeRace == Init /\ [][NextSubscribeRace]_vars

\* The refresh specification: the user logs in and out while time passes,
\* and each request slot serves one refresh request with no token or with a
\* token issued in one of the seconds of the model.
RefreshTokens == {NoToken} \cup [iat : 0..MaxTime]

NextRefresh ==
    \/ Tick
    \/ LoginUser
    \/ LogoutUser
    \/ \E c \in CallIds, token \in RefreshTokens :
            calls[c] = Idle /\ RefreshAccessToken(c, token)
    \/ \E c \in CallIds : RefreshAccessTokenFindById(c)
    \/ \E c \in CallIds : GenerateAccessAndRefereshTokens(c)
    \/ \E c \in CallIds : GenerateAccessAndRefereshTokensSave(c)

SpecRefresh == Init /\ [][NextRefresh]_vars

(***************************************************************************)
(* Properties.                                                             *)
(***************************************************************************)
CourseListings == {"getCourses", "listCourses"}

BlogListings == {"getAllBlogs", "getBlogsByCategory"}

\* The ids on the page of the last listing response.
ListedIds == {res.list.items[k] : k \in 1..Len(res.list.items)}

\* The filter the endpoint op builds from the query q.
FilterOf(op, q) == IF op = "getCourses" THEN GetCoursesFilter(q) ELSE ListCoursesFilter(q)

\* C1: a course listing whose request carries no isActive builds a filter
\* with isActive = true and returns active courses only, whatever else the
\* request carries; a blog listing always filters on isPublished = true and
\* returns published blogs only.
C1_DefaultVisibility ==
    /\ (res.op \in CourseListings /\ IsUndef(req.isActive)) =>
          /\ FilterOf(res.op, req).isActive
          /\ res.status = 200 =>
                /\ res.list.filter.isActive
                /\ \A i \in ListedIds : courses[i].isActive
    /\ (res.op \in BlogListings /\ res.status = 200) =>
          /\ res.list.filter.isPublished
          /\ \A i \in ListedIds : blogs[i].isPublished

\* C1 witness: a listing without isActive returned a course while the store
\* holds an inactive course and an unpublished blog.
C1_Witness ==
    /\ res.op \in CourseListings /\ res.status = 200 /\ IsUndef(req.isActive)
    /\ ListedIds # {}
    /\ \E i \in 1..Len(courses) : ~courses[i].isActive
    /\ \E b \in DOMAIN blogs : ~blogs[b].isPublished

\* C2: every stored course that has a discountedPrice has
\* discountedPrice <= originalPrice.
C2_DiscountWithinPrice ==
    \A i \in 1..Len(courses) :
        courses[i].hasDiscountedPrice => courses[i].discountedPrice <= courses[i].originalPrice

\* C3: after a successful createCourse or updateCourse the course written,
\* if it has a discountedPrice and originalPrice > 0, has discountPercentage =
\* round((originalPrice - discountedPrice) / originalPrice * 100).
C3_PercentageDerived ==
    (res.op \in {"createCourse", "updateCourse"} /\ res.status \in {200, 201}) =>
        LET c == courses[res.id]
        IN  (c.hasDiscountedPrice /\ c.originalPrice > 0) =>
                c.discountPercentage = CalcDiscountPercentage(c.originalPrice, c.discountedPrice)

\* C4: a successful deleteCourse leaves every course in place and changes
\* only isActive (to false) and updatedAt of the course it names, and no step
\* removes a course; a successful deleteBlog removes the blog it names, a
\* removed blog never comes back, and a lookup or a delete of a removed id
\* answers 404.
C4_SoftAndHardDelete ==
    [][/\ Len(courses') >= Len(courses)
       /\ (res'.op = "deleteCourse" /\ res'.status = 201) =>
             /\ res'.id \in 1..Len(courses)
             /\ ~courses'[res'.id].isActive
             /\ courses' = [courses EXCEPT ![res'.id].isActive = FALSE,
                                           ![res'.id].updatedAt = courses'[res'.id].updatedAt]
       /\ (res'.op = "deleteBlog" /\ res'.status = 200) =>
             (res'.id \in DOMAIN blogs /\ res'.id \notin DOMAIN blogs')
       /\ \A id \in 1..(nextBlogId - 1) :
             id \notin DOMAIN blogs =>
                /\ id \notin DOMAIN blogs'
                /\ (res'.op \in {"deleteBlog", "getBlogById"} /\ res'.id = id) =>
                      res'.status = 404]_vars

\* C4 witness: a course with a discount was just soft-deleted and is still
\* stored, and a delete of an already removed blog was answered earlier or now.
C4_Witness ==
    /\ res.op = "deleteCourse" /\ res.status = 201
    /\ ~courses[res.id].isActive
    /\ courses[res.id].hasDiscountedPrice
    /\ courses[res.id].updatedAt > courses[res.id].createdAt
    /\ \E b \in 1..(nextBlogId - 1) : b \notin DOMAIN blogs

\* The page size the rule of C5 resolves for a limit parameter: the per-endpoint
\* default when absent or not a number, else the number clamped to 1..100.
ClampedLimit(limit, default) ==
    IF IsUndef(limit) \/ ~IsNum(ParseInt(limit)) THEN default
    ELSE Min(100, Max(1, ParseInt(limit).n))

\* C5: the itemsPerPage of a course listing lies in 1..100; it is
\* min(100, max(1, n)) when limit parses as the integer n (0 and negatives
\* included) and the endpoint's default page size when it does not.
C5_LimitClamped ==
    (res.op \in CourseListings /\ res.status = 200) =>
        LET perPage == res.list.pagination.itemsPerPage
        IN  /\ IsNum(perPage) /\ perPage.n \in 1..100
            /\ perPage.n = ClampedLimit(req.limit,
                                        IF res.op = "getCourses" THEN GetCoursesDefaultLimit
                                        ELSE ListCoursesDefaultLimit)

C7_PaginationBlock ==
    (res.op \in CourseListings \cup BlogListings /\ res.status = 200) =>
        LET p == res.list.pagination
            current == ToNumber(p.currentPage)
            perPage == ToNumber(p.itemsPerPage)
        IN  (IsNum(perPage) /\ perPage.n >= 1 /\ IsNum(current)) =>
                /\ p.totalPages = Num(CeilDiv(p.totalItems, perPage.n))
                /\ p.hasNext <=> current.n < p.totalPages.n
                /\ p.hasPrev <=> current.n > 1
                /\ p.nextPage = IF p.hasNext THEN Num(current.n + 1) ELSE Null
                /\ p.prevPage = IF p.hasPrev THEN Num(current.n - 1) ELSE Null

\* C8: with hasDiscount = 'true' no listed course lacks a positive
\* discountedPrice; with hasDiscount = 'false' and no search term the matching
\* courses are exactly those matching the rest of the request whose
\* discountedPrice is absent or 0; without hasDiscount the filter carries no
\* discount constraint.
C8_HasDiscountTriState ==
    (res.op \in CourseListings /\ res.status = 200) =>
        LET others == FilterOf(res.op, [req EXCEPT !.hasDiscount = Undef])
        IN  /\ req.hasDiscount = Str(TrueStr) =>
                  \A i \in ListedIds :
                      courses[i].hasDiscountedPrice /\ courses[i].discountedPrice > 0
            /\ (req.hasDiscount = Str(FalseStr) /\ ~Truthy(req.search)) =>
                  /\ res.list.pagination.totalItems <= res.list.pagination.itemsPerPage.n
                  /\ ListedIds = {i \in Matching(others) :
                                     ~courses[i].hasDiscountedPrice
                                        \/ courses[i].discountedPrice = 0}
            /\ IsUndef(req.hasDiscount) =>
                  /\ ~res.list.filter.discountedPricePositive
                  /\ res.list.filter.or.kind # "noDiscount"
                  /\ ~res.list.filter.discountPercentage.has

\* C8 witness: hasDiscount = 'false' without a search listed a course with a
\* discountedPrice of 0 and one without any, and left a discounted one out.
C8_Witness ==
    /\ res.op \in CourseListings /\ res.status = 200
    /\ req.hasDiscount = Str(FalseStr) /\ ~Truthy(req.search)
    /\ \E i \in ListedIds : courses[i].hasDiscountedPrice /\ courses[i].discountedPrice = 0
    /\ \E i \in 1..Len(courses) :
          i \notin ListedIds /\ courses[i].isActive /\ courses[i].discountedPrice > 0

\* C9: a 500 of listCourses comes from a failed storage read only, never
\* from building the filter out of the request's values.
C9_BuilderNeverFails ==
    (res.op = "listCourses" /\ res.status = 500) => res.error = "storage"

\* Whether v is a malformed number (a string parseFloat makes NaN of).
MalformedNumber(v) == IsStr(v) /\ IsNaN(ParseFloat(v))

\* Whether v is a malformed boolean (a string that is neither 'true' nor 'false').
MalformedBoolean(v) == IsStr(v) /\ v.s \notin {TrueStr, FalseStr}

\* C10: a malformed numeric or boolean parameter raises no error and leaves
\* no trace in the filter: the listing answers as it does without the
\* parameter.
C10_MalformedOmitted ==
    res.op \in CourseListings =>
        \A p \in NumericParams \cup BooleanParams :
            (IF p \in NumericParams THEN MalformedNumber(req[p]) ELSE MalformedBoolean(req[p])) =>
                /\ res.error \notin {"builder", "cast"}
                /\ res.status = 200 =>
                      res.list.filter = FilterOf(res.op, [req EXCEPT ![p] = Undef])

\* The reads a course listing issues during one call.
IssuedReads(op) ==
    IF op = "getCourses" THEN GetCoursesJoin ELSE ListCoursesReadNames

\* C11: a course listing answers 200 with its data only if the store answered
\* every read of the call; if any read failed, the count reads issued after
\* the join included, it answers 500 and carries no items and no partial data.
C11_AllReadsOrError ==
    res.op \in CourseListings =>
        /\ res.status \in {200, 500}
        /\ res.status = 200 => failedReads \cap IssuedReads(res.op) = {}
        /\ failedReads \cap IssuedReads(res.op) # {} => res.status = 500
        /\ res.status = 500 => res.list = NoList

\* C11 witness: listCourses over a store holding a course answered 500
\* without data when only the level count read failed.
C11_Witness ==
    /\ res.op = "listCourses"
    /\ Len(courses) > 0
    /\ failedReads = {"levels"}
    /\ res.status = 500
    /\ res.list = NoList

\* The keys the sort switch of an endpoint names.
NamedSortKeys(op) ==
    IF op = "getCourses" THEN {SortName.discountedPrice, SortName.duration}
    ELSE {SortName[k] : k \in {"price", "discountedPrice", "rating", "students",
                               "duration", "discount", "popularity", "trending"}}

\* The direction a request asks for: ascending for asc, descending for desc
\* and for an absent sortOrder.
RequestedDirection(q) == IF q.sortOrder = Str(SortName.asc) THEN 1 ELSE -1

\* C12: when sortBy is absent, createdAt or a key outside the switch, the
\* resolved sort starts with that literal field in the requested direction,
\* and createdAt descending follows only when that field is not createdAt.
C12_LiteralSortKey ==
    (/\ res.op \in CourseListings
     /\ res.status = 200
     /\ req.sortOrder \in {Undef, Str(SortName.asc), Str(SortName.desc)}
     /\ OrDefault(req.sortBy, Str(SortName.createdAt)).s \notin NamedSortKeys(res.op)) =>
        LET key == OrDefault(req.sortBy, Str(SortName.createdAt)).s
            dir == RequestedDirection(req)
        IN  res.list.sort = IF key = SortName.createdAt THEN <<<<key, dir>>>>
                            ELSE <<<<key, dir>>, <<SortName.createdAt, -1>>>>

\* The storage field of each sortBy that listCourses sorts in the requested
\* direction.
SortField ==
    [by \in {SortName[k] : k \in {"price", "discountedPrice", "rating", "students",
                                  "duration", "discount"}} |->
        IF by = SortName.price THEN SortName.originalPrice
        ELSE IF by = SortName.duration THEN SortName.totalHours
        ELSE IF by = SortName.discount THEN SortName.discountPercentage
        ELSE by]

\* C13: listCourses resolves price, discountedPrice, rating, students,
\* duration and discount to their storage field in the requested direction
\* followed by createdAt descending; popularity to students, rating and
\* createdAt descending and trending to createdAt and students descending,
\* whatever sortOrder is.
C13_NamedSortKeys ==
    (res.op = "listCourses" /\ res.status = 200 /\ IsStr(req.sortBy)) =>
        /\ (req.sortBy.s \in DOMAIN SortField
            /\ req.sortOrder \in {Str(SortName.asc), Str(SortName.desc)}) =>
                res.list.sort = <<<<SortField[req.sortBy.s], RequestedDirection(req)>>,
                                  <<SortName.createdAt, -1>>>>
        /\ req.sortBy.s = SortName.popularity =>
                res.list.sort = <<<<SortName.students, -1>>, <<SortName.rating, -1>>,
                                  <<SortName.createdAt, -1>>>>
        /\ req.sortBy.s = SortName.trending =>
                res.list.sort = <<<<SortName.createdAt, -1>>, <<SortName.students, -1>>>>

\* C13 witness: sortBy=duration, sortOrder=asc resolved to {totalHours: 1,
\* createdAt: -1} and listed a shorter, older course before a longer one.
C13_Witness ==
    /\ res.op = "listCourses"
    /\ res.status = 200
    /\ req.sortBy = Str(SortName.duration)
    /\ req.sortOrder = Str(SortName.asc)
    /\ res.list.sort = <<<<SortName.totalHours, 1>>, <<SortName.createdAt, -1>>>>
    /\ Len(res.list.items) = 2
    /\ res.list.items[1] < res.list.items[2]
    /\ courses[res.list.items[1]].totalHours < courses[res.list.items[2]].totalHours

\* The courses the filter of the last listing response matches.
MatchedByResponse == {i \in 1..Len(courses) : Matches(res.list.filter, courses[i])}

\* Whether the facet is the least and the greatest value of the field over
\* the courses S.
IsRangeOver(facet, S, field) ==
    /\ \A i \in S : facet.min <= courses[i][field] /\ courses[i][field] <= facet.max
    /\ \E i \in S : courses[i][field] = facet.min
    /\ \E i \in S : courses[i][field] = facet.max

\* C14: in a listCourses response priceRange, ratingRange and durationRange
\* are the minimum and maximum of originalPrice, rating and totalHours over
\* exactly the courses matching the built filter, and each is null when no
\* course matches.
C14_FacetsOverFilteredSet ==
    (res.op = "listCourses" /\ res.status = 200) =>
        LET facets == res.list.facets
        IN  IF MatchedByResponse = {}
            THEN /\ facets.priceRange = Null
                 /\ facets.ratingRange = Null
                 /\ facets.durationRange = Null
            ELSE /\ IsRangeOver(facets.priceRange, MatchedByResponse, "originalPrice")
                 /\ IsRangeOver(facets.ratingRange, MatchedByResponse, "rating")
                 /\ IsRangeOver(facets.durationRange, MatchedByResponse, "totalHours")

\* C14 witness: a category filter narrowed a catalog of two prices and two
\* durations to one course, and the ranges are those of that course alone.
C14_Witness ==
    /\ res.op = "listCourses"
    /\ res.status = 200
    /\ req.category = Str(Backend)
    /\ Cardinality(MatchedByResponse) = 1
    /\ \E i \in MatchedByResponse, j \in 1..Len(courses) :
          /\ courses[j].originalPrice > courses[i].originalPrice
          /\ courses[j].totalHours > courses[i].totalHours
          /\ res.list.facets.priceRange.max = courses[i].originalPrice
          /\ res.list.facets.durationRange.max = courses[i].totalHours

\* C15: in a course listing totalItems is the number of courses matching
\* the built filter, and the page holds min(itemsPerPage, max(0, totalItems -
\* (currentPage - 1) * itemsPerPage)) items.
C15_CountsAgree ==
    (res.op \in CourseListings /\ res.status = 200) =>
        LET p == res.list.pagination
        IN  /\ p.totalItems = Cardinality(MatchedByResponse)
            /\ Len(res.list.items)
                  = Min(p.itemsPerPage.n,
                        Max(0, p.totalItems - (p.currentPage.n - 1) * p.itemsPerPage.n))

\* C15 witness: of two active courses one is in category backend, and the
\* first page of that category has totalItems = 1, totalPages = 1,
\* currentPage = 1, no next page and one item.
C15_Witness ==
    /\ res.op \in CourseListings
    /\ res.status = 200
    /\ req.category = Str(Backend)
    /\ IsUndef(req.minPrice)
    /\ Cardinality({i \in 1..Len(courses) : courses[i].isActive}) = 2
    /\ Cardinality({i \in 1..Len(courses) : courses[i].category = Backend}) = 1
    /\ res.list.pagination.totalItems = 1
    /\ res.list.pagination.totalPages = Num(1)
    /\ res.list.pagination.currentPage = Num(1)
    /\ ~res.list.pagination.hasNext
    /\ Len(res.list.items) = 1

\* C16: a course listing whose category is "All Courses" builds the filter
\* the same request builds without a category, whatever the other parameters.
C16_AllCoursesIsNoCategory ==
    (res.op \in CourseListings /\ req.category = Str(AllCourses)) =>
        /\ FilterOf(res.op, req) = FilterOf(res.op, [req EXCEPT !.category = Undef])
        /\ res.status = 200 =>
              res.list.filter = FilterOf(res.op, [req EXCEPT !.category = Undef])

\* C16 witness: listCourses answered a request with the sentinel, a search
\* term, hasDiscount and a minimum price with a filter that has no category.
C16_Witness ==
    /\ res.op = "listCourses"
    /\ res.status = 200
    /\ req.category = Str(AllCourses)
    /\ req.search = Str(<<"a">>)
    /\ req.hasDiscount = Str(TrueStr)
    /\ req.minPrice = Str(<<"1">>)
    /\ IsUndef(res.list.filter.category)

\* C17: an update that is answered 200 and whose request omits isActive and
\* isFeatured (as every update request of the partial update specification
\* does) leaves the stored isActive and isFeatured of the course as they
\* were; a soft-deleted course stays inactive.
C17_OmittedFlagsUnchanged ==
    [][(res'.op = "updateCourse" /\ res'.status = 200) =>
          /\ courses'[res'.id].isActive = courses[res'.id].isActive
          /\ courses'[res'.id].isFeatured = courses[res'.id].isFeatured]_vars

\* Whether a query string holds no number a parser could read.
NonNumeric(v) == IsStr(v) /\ v.s # <<>> /\ IsNaN(ParseInt(v))

\* C18: for every page and limit string blogQuerySchema accepts, findBlogs
\* is handed an integer page >= 1 and an integer limit in 1..MaxBlogLimit; a
\* non-numeric string gives the default (page 1, limit 10) and does not make
\* the request fail.
C18_BlogPageSpec ==
    res.op = "getAllBlogs" =>
        LET page == BlogQueryPage(req.page)
            limit == BlogQueryLimit(req.limit)
        IN  /\ IsNum(page) /\ page.n >= 1
            /\ IsNum(limit) /\ 1 <= limit.n /\ limit.n <= MaxBlogLimit
            /\ NonNumeric(req.page) => page = Num(1)
            /\ NonNumeric(req.limit) => limit = Num(10)
            /\ failedReads = {} => res.status = 200

\* C19: the sort of a blog listing has createdAt descending as its second key
\* unless its first key is createdAt, so blogs that are equal on the first
\* key are returned newest first.
C19_BlogSortHasSecondaryKey ==
    (res.op \in BlogListings /\ res.status = 200) =>
        /\ \/ res.list.sort[1][1] = BlogSortName.createdAt
           \/ /\ Len(res.list.sort) >= 2
              /\ res.list.sort[2] = <<BlogSortName.createdAt, -1>>
        /\ res.list.sort[1][1] # BlogSortName.createdAt =>
              \A k, l \in 1..Len(res.list.items) :
                  k < l => res.list.items[k] > res.list.items[l]

\* The range a known token of a lookup table stands for.
TableRange(ranges, name) ==
    [has |-> TRUE, gt |-> Undef, gte |-> Num(ranges[name][1]), lte |-> Num(ranges[name][2])]

\* C20: in listCourses a priceRange or durationRange token that is not a
\* name of its lookup table raises no error and leaves the filter as the
\* request without that parameter builds it; a known token sets the range of
\* the field to exactly the pair of the table.
C20_PresetTokens ==
    res.op = "listCourses" =>
        /\ (IsStr(req.priceRange) /\ req.priceRange.s \notin DOMAIN PriceRanges) =>
              /\ res.status = 200 \/ failedReads # {}
              /\ res.status = 200 =>
                    res.list.filter = ListCoursesFilter([req EXCEPT !.priceRange = Undef])
        /\ (IsStr(req.durationRange) /\ req.durationRange.s \notin DOMAIN DurationRanges) =>
              /\ res.status = 200 \/ failedReads # {}
              /\ res.status = 200 =>
                    res.list.filter = ListCoursesFilter([req EXCEPT !.durationRange = Undef])
        /\ (res.status = 200 /\ IsStr(req.priceRange)
            /\ req.priceRange.s \in DOMAIN PriceRanges) =>
              res.list.filter.originalPrice = TableRange(PriceRanges, req.priceRange.s)
        /\ (res.status = 200 /\ IsStr(req.durationRange)
            /\ req.durationRange.s \in DOMAIN DurationRanges) =>
              res.list.filter.totalHours = TableRange(DurationRanges, req.durationRange.s)

\* C21: getSimilarCourses answers 400 without a read when courseId is
\* missing, 404 when the courseId matches no course, and 200 only when the
\* reference course exists.
C21_SimilarLookupErrors ==
    res.op = "getSimilarCourses" =>
        /\ ~Truthy(req.courseId) => res.status = 400 /\ failedReads = {}
        /\ (/\ Truthy(req.courseId)
            /\ failedReads = {}
            /\ ~\E i \in 1..Len(courses) : req.courseId = Str(NatToDigits(i))) =>
                res.status = 404
        /\ res.status = 200 =>
                \E i \in 1..Len(courses) : req.courseId = Str(NatToDigits(i))

\* The public reads that return courses, and those that return counts.
CourseReads ==
    CourseListings \cup {"getCourseById", "getFeaturedCourses", "getDiscountedCourses",
                         "quickSearchCourses", "getSimilarCourses"}

CountReads == {"getCategories", "getCourseStats"}

\* The soft-deleted courses, and the number of courses of a category that
\* are not soft-deleted.
Hidden == {i \in 1..Len(courses) : ~courses[i].isActive}

VisibleIn(category) ==
    Cardinality({i \in 1..Len(courses) \ Hidden : courses[i].category = category})

\* C22: a soft-deleted course is exposed by no public read without an
\* isActive parameter: getCourseById answers 404 for it, no read returns it
\* and the counts of getCategories and getCourseStats leave it out.
C22_DeletedNotExposed ==
    /\ (res.op = "getCourseById" /\ res.id \in Hidden /\ failedReads = {}) =>
          res.status = 404
    /\ (/\ res.op \in CourseReads
        /\ res.status \in {200, 201}
        /\ res.op \in CourseListings => IsUndef(req.isActive)) =>
          \A k \in 1..Len(res.list.items) : res.list.items[k] \notin Hidden
    /\ (res.op \in CountReads /\ res.status = 201) =>
          /\ \A p \in res.list.facets.categories :
                /\ VisibleIn(p[1]) > 0
                /\ IsNum(p[2]) => p[2].n = VisibleIn(p[1])
          /\ IsNum(res.list.facets.total) =>
                res.list.facets.total.n = Len(courses) - Cardinality(Hidden)

\* C22 witness: getCourseById answered 404 for a stored course that was
\* soft-deleted and not updated since.
C22_Witness ==
    /\ res.op = "getCourseById"
    /\ res.status = 404
    /\ res.id \in Hidden
    /\ courses[res.id].updatedAt > courses[res.id].createdAt

\* C23: with both a search term and hasDiscount = 'false', the $or clause of
\* the filter of getCourses and listCourses holds the discount-absence
\* alternatives only, and the listed courses are those the same request
\* without the search term matches: courses that do not match the search
\* text but have no discount are returned.
C23_NoDiscountOverwritesSearch ==
    (/\ res.op \in CourseListings /\ res.status = 200
     /\ Truthy(req.search) /\ req.hasDiscount = Str(FalseStr)) =>
        LET others == FilterOf(res.op, [req EXCEPT !.hasDiscount = Undef,
                                                   !.search = Undef])
        IN  /\ res.list.filter.or.kind = "noDiscount"
            /\ res.list.pagination.totalItems <= res.list.pagination.itemsPerPage.n
            /\ ListedIds = {i \in Matching(others) :
                               ~courses[i].hasDiscountedPrice
                                  \/ courses[i].discountedPrice = 0}

\* C23 witness: a search for 'a' with hasDiscount = 'false' listed a course
\* without discount in which no searched field matches 'a'.
C23_Witness ==
    /\ res.op \in CourseListings /\ res.status = 200
    /\ req.search = Str(<<"a">>) /\ req.hasDiscount = Str(FalseStr)
    /\ \E i \in ListedIds :
          /\ ~courses[i].hasDiscountedPrice
          /\ ~RegexMatches(<<"a">>, courses[i].title)
          /\ ~RegexMatches(<<"a">>, courses[i].instructor)
          /\ ~RegexMatches(<<"a">>, courses[i].category)

\* C25: getBlogsByCategory normalises page and limit as getAllBlogs does:
\* over a store that answers, the request succeeds and its pagination block
\* carries an integer page of at least 1 and an integer limit between 1 and
\* the maximum page size, 1 and 10 when the parameter is absent.
C25_CategoryPageSpec ==
    (res.op = "getBlogsByCategory" /\ failedReads = {}) =>
        /\ res.status = 200
        /\ IsNum(res.list.pagination.currentPage)
        /\ res.list.pagination.currentPage.n >= 1
        /\ IsNum(res.list.pagination.itemsPerPage)
        /\ res.list.pagination.itemsPerPage.n \in 1..MaxBlogLimit
        /\ IsUndef(req.page) => res.list.pagination.currentPage = Num(1)
        /\ IsUndef(req.limit) => res.list.pagination.itemsPerPage = Num(10)
        /\ IsNum(res.list.pagination.totalPages)

\* C26: in every listing response a prevPage or nextPage that is not null
\* names an existing page: 1 <= prevPage <= totalPages and
\* 2 <= nextPage <= totalPages.
C26_NeighbourPagesExist ==
    (res.op \in CourseListings \cup BlogListings /\ res.status = 200) =>
        LET p == res.list.pagination
        IN  /\ p.prevPage # Null =>
                  /\ IsNum(p.prevPage) /\ IsNum(p.totalPages)
                  /\ 1 <= p.prevPage.n /\ p.prevPage.n <= p.totalPages.n
            /\ p.nextPage # Null =>
                  /\ IsNum(p.nextPage) /\ IsNum(p.totalPages)
                  /\ 2 <= p.nextPage.n /\ p.nextPage.n <= p.totalPages.n

\* The positions of the events of a call in flight.
EventsOf(c) == IF calls[c].op = "listCourses" THEN calls[c].events ELSE <<>>

\* C24: no read of a listCourses call is issued after another read of the
\* same call has completed.
C24_ReadsIssuedTogether ==
    \A c \in CallIds :
        \A i, j \in 1..Len(EventsOf(c)) :
            (i < j /\ EventsOf(c)[i][1] = "completed") => EventsOf(c)[j][1] # "issued"

\* The sum of the counts of a set of <<name, count>> pairs.
RECURSIVE SumOfCounts(_)
SumOfCounts(S) ==
    IF S = {} THEN 0
    ELSE LET p == CHOOSE x \in S : TRUE
         IN  p[2] + SumOfCounts(S \ {p})

\* C27: in every listCourses response the counts per category add up to
\* pagination.totalItems, and so do the counts per level.
C27_CountsAddUp ==
    (res.op = "listCourses" /\ res.status = 200) =>
        /\ SumOfCounts(res.list.facets.categories) = res.list.pagination.totalItems
        /\ "levels" \in DOMAIN res.list.facets =>
              SumOfCounts(res.list.facets.levels) = res.list.pagination.totalItems

\* C28: two subscribeUser requests for the same unknown email leave exactly
\* one subscriber record for it; one is answered 201, the other 400, none 500.
C28_OneSubscriptionWins ==
    (/\ \A c \in CallIds : calls[c].op = "subscribeUser" /\ calls[c].pc = "done"
     /\ calls[1].email = calls[2].email
     /\ calls[1].email # <<>>) =>
        /\ Cardinality(SubscribersWith(calls[1].email)) = 1
        /\ {calls[1].status, calls[2].status} = {201, 400}

\* C30: a subscriber record is inactive exactly when its unsubscribedAt is
\* set, and a request answered 400 or 404 leaves every record unchanged.
C30_StatusMatchesDate ==
    /\ [](\A i \in 1..Len(subscribers) :
              subscribers[i].status = "inactive" <=> subscribers[i].unsubscribedAt)
    /\ [][\A c \in CallIds :
              (/\ calls'[c] # calls[c]
               /\ calls'[c].pc = "done"
               /\ calls'[c].status \in {400, 404}) => subscribers' = subscribers]_vars

\* C30 witness: a subscriber unsubscribed and subscribed again is active
\* without unsubscribedAt, another is inactive, and the last request, an
\* unsubscription of the inactive one, was answered 400.
C30_Witness ==
    /\ \E i \in 1..Len(subscribers) :
          /\ subscribers[i].email = EmailA
          /\ subscribers[i].status = "active" /\ ~subscribers[i].unsubscribedAt
          /\ \E c \in CallIds : /\ calls[c].pc = "done" /\ calls[c].op = "subscribeUser"
                                /\ calls[c].email = EmailA /\ calls[c].status = 200
    /\ \E i \in 1..Len(subscribers) : subscribers[i].status = "inactive"
    /\ res.op = "unsubscribeUser" /\ res.status = 400 /\ res.id > 0

\* C29: a refresh token is accepted at most once: of two refresh requests
\* that present the same token at most one is answered 200.
C29_RefreshTokenUsedOnce ==
    (/\ \A c \in CallIds : calls[c].op = "refreshAccessToken" /\ calls[c].pc = "done"
     /\ calls[1].token = calls[2].token) =>
        ~(calls[1].status = 200 /\ calls[2].status = 200)

====
